---- MODULE Spec2Model ----
(***************************************************************************)
(* FrameUi: the compiled document (dom), the cascade (style), the markup   *)
(* compiler (compiler) and its diagnostic reporter, as state machines.     *)
(*                                                                         *)
(*   Spec          the CompiledDocument: arena, stylesheet, layout handles *)
(*   SpecTree      the tree of a document and query_selector               *)
(*   SpecDrop      compile or load, use, and drop of a document            *)
(*   SpecLock      threads calling compute_style and query_selector        *)
(*   SpecRender    a renderer and other threads on one shared document     *)
(*   SpecNodeLock  threads traversing and appending to the tree of tree.rs *)
(*   SpecCompile   compile() reading a stream of markup events             *)
(*   SpecReporter  DiagnosticPrinter: add_diagnostic / checkpoint          *)
(***************************************************************************)
EXTENDS Integers, Sequences, FiniteSets, TLC

VARIABLES
  elements,     \* CompiledDocument.elements: the arena, a sequence of nodes
  stylesheet,   \* CompiledDocument.stylesheet.rules
  yoga,         \* the layout engine's nodes, indexed by handle
  built,        \* TRUE once the document has been returned (init_yoga ran)
  obs,          \* what the last compute_style / query_selector / load returned
  should_exit,  \* DiagnosticPrinter.should_exit
  added,        \* the diagnostics add_diagnostic was called with, oldest first
  checks,       \* the results of the checkpoint() calls so far, oldest first
  crashed,      \* TRUE once add_diagnostic has panicked
  input,        \* the markup events compile has read, oldest first
  open,         \* quick_xml's opened_starts: the names of the open elements
  stack,        \* the compile_* calls in progress, innermost last
  outcome,      \* of compile: "none", "running", "ok", "err" or "panic"
  lock,         \* the RwLock of CompiledDocument.elements: its writer, its readers
  calls,        \* the call each thread is in, and how far it has got
  locks         \* tree::Node: the RwLock of each node of the tree, by node

docVars == <<elements, stylesheet, yoga, built, obs>>
repVars == <<should_exit, added, checks, crashed>>
compVars == <<input, open, stack, outcome>>
lockVars == <<lock, calls, locks>>
vars == <<elements, stylesheet, yoga, built, obs, should_exit, added, checks, crashed,
          input, open, stack, outcome, lock, calls, locks>>

(***************************************************************************)
(* Bounds of the model.                                                    *)
(***************************************************************************)
MaxNodes == 2      \* nodes of a styled document besides the root
MaxTreeNodes == 3  \* nodes of a queried document besides the root
MaxRules == 2      \* rules of the stylesheet
MaxDiags == 3      \* diagnostics added to one reporter
MaxChecks == 3     \* checkpoint() calls on one reporter
MaxStyles == 2     \* Style elements of one compiled document
MaxThreads == 3    \* threads that call into one document

(***************************************************************************)
(* yoga::Value and the style records.                                      *)
(***************************************************************************)
NaN == -1          \* f32::NAN, the value of a layout that was never computed

Px(v) == [unit |-> "px", v |-> v]
Percent(v) == [unit |-> "percent", v |-> v]
Auto == [unit |-> "auto", v |-> 0]
Undefined == [unit |-> "undefined", v |-> 0]

DefaultComputedStyle ==
  [width |-> Auto, height |-> Auto, background_color |-> <<0, 0, 0, 0>>,
   margin_top |-> Px(0), margin_bottom |-> Px(0),
   margin_left |-> Px(0), margin_right |-> Px(0)]

DefaultRenderStyle ==
  [width |-> NaN, height |-> NaN, top |-> NaN, left |-> NaN,
   background_color |-> <<0, 0, 0, 0>>]

Properties ==
  {"width", "height", "background_color",
   "margin_top", "margin_bottom", "margin_left", "margin_right"}

\* Declaration::apply: one declaration overwrites one field.
DeclarationApply(d, computed) ==
  CASE d.decl = "Width" -> [computed EXCEPT !.width = d.value]
    [] d.decl = "Height" -> [computed EXCEPT !.height = d.value]
    [] d.decl = "BackgroundColor" -> [computed EXCEPT !.background_color = d.value]
    [] d.decl = "MarginTop" -> [computed EXCEPT !.margin_top = d.value]
    [] d.decl = "MarginBottom" -> [computed EXCEPT !.margin_bottom = d.value]
    [] d.decl = "MarginLeft" -> [computed EXCEPT !.margin_left = d.value]
    [] d.decl = "MarginRight" -> [computed EXCEPT !.margin_right = d.value]

(***************************************************************************)
(* The arena.  A node is the indextree node (five links, 0 for None) and   *)
(* its Element.  Node ids are positions in the sequence.                   *)
(***************************************************************************)
None == 0

\* Element::new wrapped in Arena::new_node: no links, default styles, a new
\* layout handle.
NewElement(data, classes, id, yg) ==
  [parent |-> None, previous_sibling |-> None, next_sibling |-> None,
   first_child |-> None, last_child |-> None,
   data |-> data, classes |-> classes, id |-> id, style |-> <<>>,
   yg |-> yg, computed |-> DefaultComputedStyle, render |-> DefaultRenderStyle]

\* YGNodeNew: no style set, no owner, no children, no layout yet, and
\* freed no times.
NewYogaNode ==
  [width |-> Undefined, height |-> Undefined,
   margin |-> [top |-> Undefined, bottom |-> Undefined, left |-> Undefined, right |-> Undefined],
   owner |-> None, children |-> <<>>,
   layout |-> [width |-> NaN, height |-> NaN, top |-> NaN, left |-> NaN], freed |-> 0]

\* NodeId::append: node becomes the last child of parent.
ArenaAppendNoPrevious(a, parent, node) ==
  LET last == a[parent].last_child IN
  [i \in 1..Len(a) |->
     IF i = node THEN [a[i] EXCEPT !.parent = parent, !.next_sibling = None]
     ELSE IF i = parent THEN [a[i] EXCEPT !.last_child = node,
                                !.first_child = IF last = None THEN node ELSE @]
     ELSE IF i = last THEN [a[i] EXCEPT !.next_sibling = node]
     ELSE a[i]]

ArenaAppend(a, parent, node) ==
  LET last == a[parent].last_child IN
  [i \in 1..Len(a) |->
     IF i = node THEN [a[i] EXCEPT !.parent = parent, !.previous_sibling = last,
                                   !.next_sibling = None]
     ELSE IF i = parent THEN [a[i] EXCEPT !.last_child = node,
                                !.first_child = IF last = None THEN node ELSE @]
     ELSE IF i = last THEN [a[i] EXCEPT !.next_sibling = node]
     ELSE a[i]]

\* Traverse::next_of_next: the edge after an edge, <<>> at the end.
\* next_of_next that does not stop at the End edge of the start node.
NextOfNextPastRoot(a, root, edge) ==
  IF edge[1] = "Start"
  THEN IF a[edge[2]].first_child # None
       THEN <<"Start", a[edge[2]].first_child>>
       ELSE <<"End", edge[2]>>
  ELSE IF a[edge[2]].next_sibling # None
       THEN <<"Start", a[edge[2]].next_sibling>>
       ELSE IF a[edge[2]].parent # None
            THEN <<"End", a[edge[2]].parent>>
            ELSE <<>>

NextOfNext(a, root, edge) ==
  IF edge[1] = "Start"
  THEN IF a[edge[2]].first_child # None
       THEN <<"Start", a[edge[2]].first_child>>
       ELSE <<"End", edge[2]>>
  ELSE IF edge[2] = root THEN <<>>
       ELSE IF a[edge[2]].next_sibling # None
            THEN <<"Start", a[edge[2]].next_sibling>>
            ELSE IF a[edge[2]].parent # None
                 THEN <<"End", a[edge[2]].parent>>
                 ELSE <<>>

RECURSIVE TraverseFrom(_, _, _)
TraverseFrom(a, root, edge) ==
  IF edge = <<>> THEN <<>>
  ELSE <<edge>> \o TraverseFrom(a, root, NextOfNext(a, root, edge))

\* NodeId::traverse: the Start and End edges of the subtree of root.
Traverse(a, root) == TraverseFrom(a, root, <<"Start", root>>)

\* NodeId::descendants: the nodes of the Start edges, in order.
Descendants(a, root) ==
  LET t == Traverse(a, root)
      starts == SelectSeq(t, LAMBDA e : e[1] = "Start")
  IN [i \in 1..Len(starts) |-> starts[i][2]]

Range(s) == {s[i] : i \in 1..Len(s)}

RECURSIVE Ancestors(_, _)
\* The proper ancestors of n, following parent links.
Ancestors(a, n) ==
  IF a[n].parent = None THEN {} ELSE {a[n].parent} \cup Ancestors(a, a[n].parent)

(***************************************************************************)
(* Selectors.  A simple selector is [k, v]; a compound is a sequence of    *)
(* simple selectors; a selector is its compounds, leftmost first, and the  *)
(* combinators between them; a selector list is a sequence of selectors.   *)
(***************************************************************************)
Simple(k, v) == [k |-> k, v |-> v]

\* Element::get_local_name
get_local_name(a, n) == IF a[n].data = "Root" THEN "#root" ELSE "Unstyled"

\* MatchingElement::has_local_name
has_local_name(a, n, local_name) == get_local_name(a, n) = local_name

\* MatchingElement::has_id: the id is present and equal (case-sensitive).
has_id(a, n, id) == a[n].id # <<>> /\ a[n].id[1] = id

\* has_class looking at the first class of the list only.
has_class_first_only(a, n, name) == a[n].classes # <<>> /\ a[n].classes[1] = name

\* MatchingElement::has_class: some class of the list is equal (case-sensitive).
has_class(a, n, name) == \E i \in 1..Len(a[n].classes) : a[n].classes[i] = name

\* MatchingElement::is_empty
is_empty(a, n) == a[n].first_child = None

\* MatchingElement::is_root
is_root(a, n) == a[n].data = "Root"

\* MatchingElement::parent_element / prev_sibling_element (None is 0)
parent_element(a, n) == a[n].parent
prev_sibling_element(a, n) == a[n].previous_sibling

\* One simple selector against one element, through the Element trait.
MatchesSimple(a, n, s) ==
  CASE s.k = "universal" -> TRUE
    [] s.k = "type" -> has_local_name(a, n, s.v)
    [] s.k = "id" -> has_id(a, n, s.v)
    [] s.k = "class" -> has_class(a, n, s.v)
    [] s.k = "empty" -> is_empty(a, n)
    [] s.k = "root" -> is_root(a, n)

MatchesCompound(a, n, c) == \A i \in 1..Len(c) : MatchesSimple(a, n, c[i])

RECURSIVE MatchesFrom(_, _, _, _)
\* Compounds 1..i of sel match with compound i on n.
MatchesFrom(a, n, sel, i) ==
  /\ MatchesCompound(a, n, sel.compounds[i])
  /\ \/ i = 1
     \/ /\ i > 1
        /\ CASE sel.combinators[i - 1] = "child" ->
                  /\ parent_element(a, n) # None
                  /\ MatchesFrom(a, parent_element(a, n), sel, i - 1)
             [] sel.combinators[i - 1] = "descendant" ->
                  \E m \in Ancestors(a, n) : MatchesFrom(a, m, sel, i - 1)
             [] sel.combinators[i - 1] = "next_sibling" ->
                  /\ prev_sibling_element(a, n) # None
                  /\ MatchesFrom(a, prev_sibling_element(a, n), sel, i - 1)

MatchesSelector(a, n, sel) == MatchesFrom(a, n, sel, Len(sel.compounds))

\* selectors::matching::matches_selector_list as the callers use it.
matches_selector_list(list, a, n) ==
  \E i \in 1..Len(list) : MatchesSelector(a, n, list[i])

(***************************************************************************)
(* The stylesheet and the cascade.                                         *)
(***************************************************************************)
RECURSIVE ApplyDeclarations(_, _)
\* self.properties.iter().for_each(|x| x.apply(computed))
ApplyDeclarations(props, computed) ==
  IF props = <<>> THEN computed
  ELSE ApplyDeclarations(Tail(props), DeclarationApply(Head(props), computed))

\* StyleRule::apply
StyleRuleApply(rule, a, n, computed) ==
  IF matches_selector_list(rule.selectors, a, n)
  THEN ApplyDeclarations(rule.properties, computed)
  ELSE computed

RECURSIVE StyleSheetApply(_, _, _, _)
\* StyleSheet::apply: every rule, in the order of the list.
StyleSheetApply(rules, a, n, computed) ==
  IF rules = <<>> THEN computed
  ELSE StyleSheetApply(Tail(rules), a, n, StyleRuleApply(Head(rules), a, n, computed))

One(c) == [compounds |-> <<c>>, combinators |-> <<>>]
Decl(d, v) == [decl |-> d, value |-> v]

\* The rules the stylesheets of the model are made of:
\*   .x { width: 10px; margin-left: 5px }
\*   #a, Unstyled > .x, :root .y { width: 20px; height: 10px; height: none }
\*   :empty { width: 50%; height: 20px; background-color: #f00 }
RuleX ==
  [selectors |-> << One(<<Simple("class", "x")>>) >>,
   properties |-> << Decl("Width", Px(10)), Decl("MarginLeft", Px(5)) >>]

RuleA ==
  [selectors |-> << One(<<Simple("id", "a")>>),
                    [compounds |-> << <<Simple("type", "Unstyled")>>, <<Simple("class", "x")>> >>,
                     combinators |-> <<"child">>],
                    [compounds |-> << <<Simple("root", "")>>, <<Simple("class", "y")>> >>,
                     combinators |-> <<"descendant">>] >>,
   properties |-> << Decl("Width", Px(20)), Decl("Height", Px(10)),
                     Decl("Height", Undefined) >>]

RuleEmpty ==
  [selectors |-> << One(<<Simple("empty", "")>>) >>,
   properties |-> << Decl("Width", Percent(50)), Decl("Height", Px(20)),
                     Decl("BackgroundColor", <<255, 0, 0, 255>>) >>]

RulePool == {RuleX, RuleA, RuleEmpty}

\* The elements the markup of the model is made of: classes and id.
ElementPool ==
  { [classes |-> <<"x", "y">>, id |-> <<"a">>],
    [classes |-> <<"x">>, id |-> <<>>] }

(***************************************************************************)
(* The layout engine behind yoga::Node, at its interface: a node keeps the *)
(* width and height it was given and its children; calculate_layout lays   *)
(* the children of a node out as a column, top to bottom.                  *)
(***************************************************************************)
\* Node::set_width / set_height
YogaSetSize(yg, h, width, height) ==
  [yg EXCEPT ![h].width = width, ![h].height = height]

\* Node::insert_child(child, child_count()): child becomes the last child.
\* An insertion before the children the parent has.
YogaInsertChildFirst(yg, parent, child) ==
  [yg EXCEPT ![parent].children = <<child>> \o @, ![child].owner = parent]

YogaInsertChild(yg, parent, child) ==
  [yg EXCEPT ![parent].children = Append(@, child), ![child].owner = parent]

\* yoga::Node::free (YGNodeFree): the memory of one node is released.
free(yg, h) == [yg EXCEPT ![h].freed = @ + 1]

\* free_recursive that frees the node and none of its children.
free_node_only(yg, h) == free(yg, h)

RECURSIVE free_recursive(_, _)
RECURSIVE YogaFreeChildren(_, _)
\* yoga::Node::free_recursive (YGNodeFreeRecursive): the children the node
\* owns are freed recursively, then the node.
free_recursive(yg, h) == free(YogaFreeChildren(yg, yg[h].children), h)

YogaFreeChildren(yg, kids) ==
  IF kids = <<>> THEN yg
  ELSE YogaFreeChildren(free_recursive(yg, Head(kids)), Tail(kids))

ResolveLength(value, available) ==
  CASE value.unit = "px" -> value.v
    [] value.unit = "percent" -> (value.v * available) \div 100
    [] OTHER -> available

RECURSIVE YogaHeight(_, _, _, _)
RECURSIVE YogaChildrenHeight(_, _, _)
\* The height a node gets: its own, or for auto the height of its children.
YogaHeight(yg, h, available, isRoot) ==
  IF yg[h].height.unit \in {"px", "percent"} THEN ResolveLength(yg[h].height, available)
  ELSE IF isRoot THEN available
  ELSE YogaChildrenHeight(yg, yg[h].children, 0)

YogaChildrenHeight(yg, kids, available) ==
  IF kids = <<>> THEN 0
  ELSE YogaHeight(yg, Head(kids), available, FALSE)
       + YogaChildrenHeight(yg, Tail(kids), available)

RECURSIVE YogaLayoutNode(_, _, _, _, _, _)
RECURSIVE YogaLayoutChildren(_, _, _, _, _)
YogaLayoutNode(yg, h, top, availableWidth, availableHeight, isRoot) ==
  LET width == ResolveLength(yg[h].width, availableWidth)
      height == YogaHeight(yg, h, availableHeight, isRoot)
      placed == [yg EXCEPT ![h].layout =
                   [width |-> width, height |-> height, top |-> top, left |-> 0]]
  IN YogaLayoutChildren(placed, yg[h].children, 0, width, height)

YogaLayoutChildren(yg, kids, top, availableWidth, availableHeight) ==
  IF kids = <<>> THEN yg
  ELSE LET one == YogaLayoutNode(yg, Head(kids), top, availableWidth, availableHeight, FALSE)
       IN YogaLayoutChildren(one, Tail(kids), top + one[Head(kids)].layout.height,
                             availableWidth, availableHeight)

\* Node::calculate_layout on the root handle.  The direction mirrors the
\* horizontal axis only; the column keeps left = 0 in both directions.
YogaCalculateLayout(yg, h, width, height, direction) ==
  YogaLayoutNode(yg, h, 0, width, height, TRUE)

(***************************************************************************)
(* The operations of CompiledDocument.                                     *)
(***************************************************************************)
root == 1          \* the root is the first node compile creates

\* Element::prepare_yoga
prepare_yoga(yg, element) == YogaSetSize(yg, element.yg, element.computed.width,
                                         element.computed.height)

\* Element::update_render
update_render(yg, element) ==
  [element EXCEPT !.render =
     [width |-> yg[element.yg].layout.width, height |-> yg[element.yg].layout.height,
      top |-> yg[element.yg].layout.top, left |-> yg[element.yg].layout.left,
      background_color |-> element.computed.background_color]]

\* The ComputedStyle the first loop of compute_style leaves on node n: the
\* rules are applied to the value the node already holds.
ComputePass(a, rules, n) == StyleSheetApply(rules, a, n, a[n].computed)

RECURSIVE PrepareAll(_, _, _)
PrepareAll(yg, a, ids) ==
  IF ids = <<>> THEN yg
  ELSE PrepareAll(prepare_yoga(yg, a[Head(ids)]), a, Tail(ids))

\* compute_style handing each node to the layout engine before its new
\* ComputedStyle is stored.
compute_style_prepare_first(a, r, rules, yg, width, height, direction) ==
  LET vec == Descendants(a, r)
      styled == [i \in 1..Len(a) |->
                   IF i \in Range(vec) THEN [a[i] EXCEPT !.computed = ComputePass(a, rules, i)]
                   ELSE a[i]]
      prepared == PrepareAll(yg, a, vec)
      laid == YogaCalculateLayout(prepared, styled[r].yg, width, height, direction)
  IN [elements |-> [i \in 1..Len(a) |->
                      IF i \in Range(vec) THEN update_render(laid, styled[i]) ELSE styled[i]],
      yoga |-> laid]

\* CompiledDocument::compute_style: [elements, yoga] afterwards.
compute_style(a, r, rules, yg, width, height, direction) ==
  LET vec == Descendants(a, r)
      styled == [i \in 1..Len(a) |->
                   IF i \in Range(vec) THEN [a[i] EXCEPT !.computed = ComputePass(a, rules, i)]
                   ELSE a[i]]
      prepared == PrepareAll(yg, styled, vec)
      laid == YogaCalculateLayout(prepared, styled[r].yg, width, height, direction)
  IN [elements |-> [i \in 1..Len(a) |->
                      IF i \in Range(vec) THEN update_render(laid, styled[i]) ELSE styled[i]],
      yoga |-> laid]

RECURSIVE InitYogaFrom(_, _, _)
InitYogaFrom(yg, a, ids) ==
  IF ids = <<>> THEN yg
  ELSE InitYogaFrom(YogaInsertChild(yg, a[a[Head(ids)].parent].yg, a[Head(ids)].yg),
                    a, Tail(ids))

\* CompiledDocument::init_yoga: every node but the root, in descendant
\* order, is inserted as the last child of its parent's handle.
init_yoga(yg, a, r) == InitYogaFrom(yg, a, Tail(Descendants(a, r)))

RECURSIVE FirstMatch(_, _, _)
\* The loop of query_selector over arena.iter(): the nodes of the arena in
\* index order, removed ones skipped (the model removes none).
FirstMatch(a, list, i) ==
  IF i > Len(a) THEN None
  ELSE IF matches_selector_list(list, a, i) THEN i
  ELSE FirstMatch(a, list, i + 1)

(***************************************************************************)
(* Selector text.  A text is its sequence of tokens; SelectorList::parse   *)
(* reads one, to_css_string writes one.                                    *)
(***************************************************************************)
Tok(t, v) == [t |-> t, v |-> v]
Ws == Tok("ws", " ")

RECURSIVE SkipWs(_)
SkipWs(toks) ==
  IF toks # <<>> /\ Head(toks).t = "ws" THEN SkipWs(Tail(toks)) ELSE toks

ParseFail == [ok |-> FALSE, value |-> <<>>, rest |-> <<>>]

RECURSIVE ParseCompound(_, _)
\* One compound selector: an optional type or *, then ids, classes and the
\* tree-structural pseudo-classes :empty and :root.
ParseCompound(toks, acc) ==
  IF toks = <<>> THEN [ok |-> TRUE, value |-> acc, rest |-> toks]
  ELSE LET t == Head(toks) IN
    CASE t.t = "ident" /\ acc = <<>> ->
           ParseCompound(Tail(toks), <<Simple("type", t.v)>>)
      [] t.t = "star" /\ acc = <<>> ->
           ParseCompound(Tail(toks), <<Simple("universal", "")>>)
      [] t.t = "hash" ->
           ParseCompound(Tail(toks), Append(acc, Simple("id", t.v)))
      [] t.t = "dot" ->
           IF Len(toks) >= 2 /\ toks[2].t = "ident"
           THEN ParseCompound(SubSeq(toks, 3, Len(toks)), Append(acc, Simple("class", toks[2].v)))
           ELSE ParseFail
      [] t.t = "colon" ->
           IF Len(toks) >= 2 /\ toks[2].t = "ident" /\ toks[2].v \in {"empty", "root"}
           THEN ParseCompound(SubSeq(toks, 3, Len(toks)), Append(acc, Simple(toks[2].v, "")))
           ELSE ParseFail
      [] OTHER -> [ok |-> TRUE, value |-> acc, rest |-> toks]

RECURSIVE ParseComplex(_, _)
\* One selector: compounds separated by >, + or white space.
ParseComplex(toks, sel) ==
  LET c == ParseCompound(toks, <<>>) IN
  IF ~c.ok \/ c.value = <<>> THEN ParseFail
  ELSE LET sel1 == [sel EXCEPT !.compounds = Append(@, c.value)]
           r == SkipWs(c.rest)
           hadWs == c.rest # <<>> /\ Head(c.rest).t = "ws"
           with(comb) == [sel1 EXCEPT !.combinators = Append(@, comb)]
       IN IF r = <<>> \/ Head(r).t = "comma"
          THEN [ok |-> TRUE, value |-> sel1, rest |-> r]
          ELSE IF Head(r).t = "gt" THEN ParseComplex(SkipWs(Tail(r)), with("child"))
          ELSE IF Head(r).t = "plus" THEN ParseComplex(SkipWs(Tail(r)), with("next_sibling"))
          ELSE IF hadWs THEN ParseComplex(r, with("descendant"))
          ELSE ParseFail

RECURSIVE ParseList(_, _)
ParseList(toks, acc) ==
  LET one == ParseComplex(SkipWs(toks), [compounds |-> <<>>, combinators |-> <<>>]) IN
  IF ~one.ok THEN ParseFail
  ELSE IF one.rest = <<>> THEN [ok |-> TRUE, value |-> Append(acc, one.value), rest |-> <<>>]
  ELSE ParseList(Tail(one.rest), Append(acc, one.value))

\* SelectorList::parse(&SelectorParser, ..): [ok, value].
SelectorListParse(text) == ParseList(text, <<>>)

SimpleToCss(s) ==
  CASE s.k = "universal" -> <<Tok("star", "*")>>
    [] s.k = "type" -> <<Tok("ident", s.v)>>
    [] s.k = "id" -> <<Tok("hash", s.v)>>
    [] s.k = "class" -> <<Tok("dot", "."), Tok("ident", s.v)>>
    [] OTHER -> <<Tok("colon", ":"), Tok("ident", s.k)>>

RECURSIVE CompoundToCss(_)
CompoundToCss(c) ==
  IF c = <<>> THEN <<>> ELSE SimpleToCss(Head(c)) \o CompoundToCss(Tail(c))

CombinatorToCss(comb) ==
  CASE comb = "child" -> <<Ws, Tok("gt", ">"), Ws>>
    [] comb = "next_sibling" -> <<Ws, Tok("plus", "+"), Ws>>
    [] OTHER -> <<Ws>>

RECURSIVE SelectorToCss(_, _)
SelectorToCss(sel, i) ==
  IF i > Len(sel.compounds) THEN <<>>
  ELSE (IF i = 1 THEN <<>> ELSE CombinatorToCss(sel.combinators[i - 1]))
       \o CompoundToCss(sel.compounds[i]) \o SelectorToCss(sel, i + 1)

RECURSIVE ListToCss(_, _)
\* rule.selectors.to_css_string(): the selectors separated by ", ".
ListToCss(list, i) ==
  IF i > Len(list) THEN <<>>
  ELSE (IF i = 1 THEN <<>> ELSE <<Tok("comma", ","), Ws>>)
       \o SelectorToCss(list[i], 1) \o ListToCss(list, i + 1)

to_css_string(list) == ListToCss(list, 1)

\* The selector texts query_selector is called with:
\*   #a   .x   .y   .z   .X   > .x (not a selector)
QueryPool ==
  { <<Tok("hash", "a")>>,
    <<Tok("dot", "."), Tok("ident", "x")>>,
    <<Tok("dot", "."), Tok("ident", "y")>>,
    <<Tok("dot", "."), Tok("ident", "z")>>,
    <<Tok("dot", "."), Tok("ident", "X")>>,
    <<Tok("gt", ">"), Ws, Tok("dot", "."), Tok("ident", "x")>> }

\* CompiledDocument::query_selector: 0 for None.
query_selector(a, text) ==
  LET list == SelectorListParse(text) IN
  IF ~list.ok THEN None ELSE FirstMatch(a, list.value, 1)

(***************************************************************************)
(* save and load.  The serialized form is the value the serde impls build: *)
(* a node is its element and the list of its serialized children, a rule   *)
(* is the text of its selectors and its declarations.                      *)
(***************************************************************************)
RECURSIVE ChildrenFrom(_, _)
ChildrenFrom(a, current) ==
  IF current = None THEN <<>>
  ELSE <<current>> \o ChildrenFrom(a, a[current].next_sibling)

\* An iterator over the children that stops after the first child.
ChildrenFirstOnly(a, n) ==
  IF a[n].first_child = None THEN <<>> ELSE <<a[n].first_child>>

\* NodeId::children: the first child, then the next siblings.
Children(a, n) == ChildrenFrom(a, a[n].first_child)

\* From<StyleRule> for SerdeStyleRule
SerdeStyleRuleFrom(rule) ==
  [selectors |-> to_css_string(rule.selectors), properties |-> rule.properties]

\* From<SerdeStyleRule> for StyleRule: parse(..).unwrap()
StyleRuleFrom(serde) ==
  LET parsed == SelectorListParse(serde.selectors) IN
  [panicked |-> ~parsed.ok,
   rule |-> [selectors |-> parsed.value, properties |-> serde.properties]]

\* Serialize for Element: yg, computed and render are skipped.
ElementSerialize(element) ==
  [data |-> element.data, classes |-> element.classes, id |-> element.id,
   style |-> [i \in 1..Len(element.style) |-> SerdeStyleRuleFrom(element.style[i])]]

\* Deserialize for Element: the skipped fields get a new handle and the
\* default styles.
ElementDeserialize(ser, yg) ==
  [NewElement(ser.data, ser.classes, ser.id, yg) EXCEPT
     !.style = [i \in 1..Len(ser.style) |-> StyleRuleFrom(ser.style[i]).rule]]

RECURSIVE NodeSerialize(_, _)
\* Serialize for Node: the fields data and children.
NodeSerialize(a, n) ==
  LET kids == Children(a, n) IN
  [data |-> ElementSerialize(a[n]),
   children |-> [i \in 1..Len(kids) |-> NodeSerialize(a, kids[i])]]

\* NodeVisitor::construct: the new parent takes the chain of children and
\* every child of the chain gets it as parent.
NodeConstruct(a, element, first_child, last_child) ==
  LET id == Len(a) + 1
      parent == [element EXCEPT !.first_child = first_child, !.last_child = last_child]
      kids == Range(ChildrenFrom(a, first_child))
  IN [i \in 1..id |->
        IF i = id THEN parent
        ELSE IF i \in kids THEN [a[i] EXCEPT !.parent = id]
        ELSE a[i]]

RECURSIVE NodeDeserialize(_, _, _)
RECURSIVE ChildVisitorSeq(_, _, _, _, _)
\* Deserialize for Node: the element, then the children, then construct.
\* [a, nyg, id]: the arena, the handles made so far, the new node.
NodeDeserialize(ser, a, nyg) ==
  LET element == ElementDeserialize(ser.data, nyg + 1)
      partial == ChildVisitorSeq(ser.children, a, nyg + 1, None, None)
      built_ == NodeConstruct(partial.a, element, partial.first_child, partial.last_child)
  IN [a |-> built_, nyg |-> partial.nyg, id |-> Len(built_)]

\* ChildVisitor::visit_seq: each child is linked after the one before it.
ChildVisitorSeq(sers, a, nyg, first_child, last_node) ==
  IF sers = <<>>
  THEN [a |-> a, nyg |-> nyg, first_child |-> first_child, last_child |-> last_node]
  ELSE LET one == NodeDeserialize(Head(sers), a, nyg)
           linked == IF last_node = None THEN one.a
                     ELSE [one.a EXCEPT ![last_node].next_sibling = one.id,
                                        ![one.id].previous_sibling = last_node]
       IN ChildVisitorSeq(Tail(sers), linked, one.nyg,
                          IF first_child = None THEN one.id ELSE first_child, one.id)

STRUCTURE_VERSION == 0

\* CompiledDocument::save: the fields in their order, the version byte
\* first, then the tree from the root and the rules.
save(a, r, rules) ==
  [version |-> STRUCTURE_VERSION,
   elements |-> NodeSerialize(a, r),
   stylesheet |-> [i \in 1..Len(rules) |-> SerdeStyleRuleFrom(rules[i])]]

\* CompiledDocument::load: deserialize, then init_yoga on the new handles.
\* The version byte is read into the document like any other field.
load(data) ==
  LET tree == NodeDeserialize(data.elements, <<>>, 0)
      rules == [i \in 1..Len(data.stylesheet) |-> StyleRuleFrom(data.stylesheet[i])]
  IN [panicked |-> \E i \in 1..Len(rules) : rules[i].panicked,
      version |-> data.version,
      elements |-> tree.a, root |-> tree.id,
      stylesheet |-> [i \in 1..Len(rules) |-> rules[i].rule],
      yoga |-> init_yoga([i \in 1..tree.nyg |-> NewYogaNode], tree.a, tree.id)]

(***************************************************************************)
(* The document as a state machine.                                        *)
(***************************************************************************)
Viewports == { <<100, 60, "LTR">>, <<200, 60, "RTL">> }

NoObs == [op |-> "none"]

\* The styles of every node, as compute_style leaves them.
Snapshot(a) == [i \in 1..Len(a) |-> [computed |-> a[i].computed, render |-> a[i].render]]

ReporterInit ==
  /\ should_exit = FALSE
  /\ added = <<>>
  /\ checks = <<>>
  /\ crashed = FALSE

\* compile: a new arena holding the root, an empty stylesheet.
DocInit ==
  /\ elements = <<NewElement("Root", <<>>, <<>>, 1)>>
  /\ yoga = <<NewYogaNode>>
  /\ stylesheet = <<>>
  /\ built = FALSE
  /\ obs = NoObs

\* Before compile is called.
CompileInit ==
  /\ input = <<>>
  /\ open = <<>>
  /\ stack = <<>>
  /\ outcome = "none"

Threads == 1..MaxThreads

\* RwLock::new: no writer (a thread, None for none), no readers.
NewRwLock == [writer |-> None, readers |-> {}]

NoCall == [op |-> "none"]

\* The RwLock of a new tree node: no writer, no readers, and no thread
\* waiting to write.
NewNodeLock == [writer |-> None, readers |-> {}, waiting |-> {}]

\* The lock of a new document, the lock of its root, and no thread in a call.
LockInit ==
  /\ lock = NewRwLock
  /\ calls = [t \in Threads |-> NoCall]
  /\ locks = <<NewNodeLock>>

Init == DocInit /\ ReporterInit /\ CompileInit /\ LockInit

\* The document has not been dropped: the handle of its root is not freed.
Alive == yoga[elements[root].yg].freed = 0

\* The elements compile has open after the last node it created: that node
\* and its ancestors.
OpenPath == {Len(elements)} \cup Ancestors(elements, Len(elements))

\* new_node(Element::new(..)) followed by parent.append(node, ..): a new
\* element becomes the last child of a node of the tree.  While the
\* document is compiled the parent is an open element (document order);
\* afterwards the arena is public and any node of the tree can be the parent.
AppendElementUpTo(parent, e, max) ==
  /\ Alive
  /\ Len(elements) < max + 1
  /\ ~built => parent \in OpenPath
  /\ LET node == Len(elements) + 1
         created == Append(elements, NewElement("Unstyled", e.classes, e.id, Len(yoga) + 1))
     IN elements' = ArenaAppend(created, parent, node)
  /\ yoga' = Append(yoga, NewYogaNode)
  /\ obs' = NoObs
  /\ UNCHANGED <<stylesheet, built>>
  /\ UNCHANGED <<repVars, compVars>>
  /\ UNCHANGED lockVars

AppendElement(parent, e) == AppendElementUpTo(parent, e, MaxNodes)

TreeAppendElement(parent, e) == AppendElementUpTo(parent, e, MaxTreeNodes)

\* StyleSheet::parse pushing one rule, while the document is compiled.
AddRule(rule) ==
  /\ ~built
  /\ Len(stylesheet) < MaxRules
  /\ stylesheet' = Append(stylesheet, rule)
  /\ UNCHANGED <<elements, yoga, built, obs>>
  /\ UNCHANGED <<repVars, compVars>>
  /\ UNCHANGED lockVars

\* The end of compile: init_yoga, and the document is returned.
Build ==
  /\ ~built
  /\ built' = TRUE
  /\ yoga' = init_yoga(yoga, elements, root)
  /\ UNCHANGED <<elements, stylesheet, obs>>
  /\ UNCHANGED <<repVars, compVars>>
  /\ UNCHANGED lockVars

ComputeStyle(vp) ==
  /\ built /\ Alive
  /\ LET after == compute_style(elements, root, stylesheet, yoga, vp[1], vp[2], vp[3])
         repeat == obs.op = "compute_style" /\ obs.viewport = vp
     IN /\ elements' = after.elements
        /\ yoga' = after.yoga
        /\ obs' = [op |-> "compute_style", viewport |-> vp, repeat |-> repeat,
                   before |-> IF repeat THEN Snapshot(elements) ELSE <<>>]
  /\ UNCHANGED <<stylesheet, built>>
  /\ UNCHANGED <<repVars, compVars>>
  /\ UNCHANGED lockVars

QuerySelector(text) ==
  /\ built /\ Alive
  /\ obs' = [op |-> "query_selector", text |-> text, result |-> query_selector(elements, text)]
  /\ UNCHANGED <<elements, stylesheet, yoga, built>>
  /\ UNCHANGED <<repVars, compVars>>
  /\ UNCHANGED lockVars

SaveLoad ==
  /\ built /\ Alive
  /\ obs' = [op |-> "load", doc |-> load(save(elements, root, stylesheet))]
  /\ UNCHANGED <<elements, stylesheet, yoga, built>>
  /\ UNCHANGED <<repVars, compVars>>
  /\ UNCHANGED lockVars

\* The version bytes of the inputs of load that save did not write.
OtherVersions == {1}

\* load_from on the bytes of save with another first byte.
LoadFrom(version) ==
  /\ built /\ Alive
  /\ LET saved == save(elements, root, stylesheet)
     IN obs' = [op |-> "load_from", saved |-> saved.version, version |-> version,
                doc |-> load([saved EXCEPT !.version = version])]
  /\ UNCHANGED <<elements, stylesheet, yoga, built>>
  /\ UNCHANGED <<repVars, compVars>>
  /\ UNCHANGED lockVars

\* An element is appended while the document is compiled.
CompileAppendElement(parent, e) == ~built /\ AppendElementUpTo(parent, e, MaxNodes)

\* Drop for CompiledDocument: free_recursive on the handle of the root.
Drop ==
  /\ built /\ Alive
  /\ yoga' = free_recursive(yoga, elements[root].yg)
  /\ UNCHANGED <<elements, stylesheet, built, obs>>
  /\ UNCHANGED <<repVars, compVars>>
  /\ UNCHANGED lockVars

\* Drop for the document load has returned.
DropLoaded ==
  /\ obs.op = "load"
  /\ ~obs.doc.panicked
  /\ obs' = [op |-> "drop_loaded",
             doc |-> [obs.doc EXCEPT !.yoga =
                        free_recursive(@, obs.doc.elements[obs.doc.root].yg)]]
  /\ UNCHANGED <<elements, stylesheet, yoga, built>>
  /\ UNCHANGED <<repVars, compVars>>
  /\ UNCHANGED lockVars

Next ==
  \/ \E p \in 1..Len(elements) : \E e \in ElementPool : AppendElement(p, e)
  \/ \E rule \in RulePool : AddRule(rule)
  \/ Build
  \/ \E vp \in Viewports : ComputeStyle(vp)
  \/ SaveLoad

Spec == Init /\ [][Next]_vars

\* The documents compile and load return, from their making to their drop.
NextDrop ==
  \/ \E p \in 1..Len(elements) : \E e \in ElementPool : CompileAppendElement(p, e)
  \/ AddRule(RuleX)
  \/ Build
  \/ \E vp \in Viewports : ComputeStyle(vp)
  \/ SaveLoad
  \/ Drop
  \/ DropLoaded

SpecDrop == Init /\ [][NextDrop]_vars

\* The tree of a document and the queries on it.
NextTree ==
  \/ \E p \in 1..Len(elements) : \E e \in ElementPool : TreeAppendElement(p, e)
  \/ Build
  \/ \E text \in QueryPool : QuerySelector(text)
  \/ \E version \in OtherVersions : LoadFrom(version)

SpecTree == Init /\ [][NextTree]_vars

(***************************************************************************)
(* The lock of the document.  elements is a std::sync::RwLock: compute_style *)
(* takes it for writing, query_selector for reading, and each holds its    *)
(* guard until it returns.  A thread is in at most one call; a call that   *)
(* cannot take the lock has not begun.                                     *)
(***************************************************************************)
\* A read that does not wait for the writer.
read_past_writer(l, t) == [ok |-> TRUE, lock |-> [l EXCEPT !.readers = @ \cup {t}]]

\* RwLock::read: granted while no thread holds the lock for writing.
read(l, t) == [ok |-> l.writer = None, lock |-> [l EXCEPT !.readers = @ \cup {t}]]

\* RwLock::write: granted while no thread holds the lock at all.
write(l, t) == [ok |-> l.writer = None /\ l.readers = {}, lock |-> [l EXCEPT !.writer = t]]

\* The guard of thread t is dropped.
unlock(l, t) ==
  [writer |-> IF l.writer = t THEN None ELSE l.writer, readers |-> l.readers \ {t}]

\* The element of the documents the threads share, the viewport and the
\* selector texts of their calls:  .x   #a
LockElement == [classes |-> <<"x">>, id |-> <<>>]
LockViewport == <<100, 60, "LTR">>
LockQueryPool == { <<Tok("dot", "."), Tok("ident", "x")>>, <<Tok("hash", "a")>> }

\* compute_style takes the lock for writing and collects the descendants.
\* The record of the call keeps, in log, the calls made on the layout
\* handles and the read-backs, in the order the code makes them.
ComputeStyleLock(t, vp) ==
  /\ built
  /\ calls[t] = NoCall
  /\ LET w == write(lock, t)
     IN /\ w.ok
        /\ lock' = w.lock
  /\ calls' = [calls EXCEPT ![t] = [op |-> "compute_style", viewport |-> vp,
                                    vec |-> Descendants(elements, root), pos |-> 1,
                                    phase |-> "style", log |-> <<>>, caller |-> "none"]]
  /\ UNCHANGED <<docVars, repVars, compVars, locks>>

\* Renderer::render_inner begins: it calls compute_style with the layout
\* size of the renderer.
RenderInner(t, layout_size) ==
  /\ built
  /\ calls[t] = NoCall
  /\ LET w == write(lock, t)
     IN /\ w.ok
        /\ lock' = w.lock
  /\ calls' = [calls EXCEPT ![t] = [op |-> "compute_style",
                                    viewport |-> <<layout_size[1], layout_size[2], "LTR">>,
                                    vec |-> Descendants(elements, root), pos |-> 1,
                                    phase |-> "style", log |-> <<>>,
                                    caller |-> "render_inner"]]
  /\ UNCHANGED <<docVars, repVars, compVars, locks>>

\* One turn of the first loop of compute_style: the rules are applied to
\* the node, the result is stored and handed to the layout engine. This
\* variant also runs the layout on the node's handle in every turn.
ComputeStyleNodeLayoutEach(t) ==
  /\ calls[t].op = "compute_style"
  /\ calls[t].phase = "style"
  /\ calls[t].pos <= Len(calls[t].vec)
  /\ LET id == calls[t].vec[calls[t].pos]
         vp == calls[t].viewport
         styled == [elements EXCEPT ![id].computed = ComputePass(elements, stylesheet, id)]
     IN /\ elements' = styled
        /\ yoga' = YogaCalculateLayout(prepare_yoga(yoga, styled[id]), styled[id].yg,
                                       vp[1], vp[2], vp[3])
        /\ calls' = [calls EXCEPT ![t].pos = @ + 1,
                                  ![t].log = @ \o <<<<"prepare_yoga", id>>,
                                                    <<"calculate_layout", styled[id].yg>>>>]
  /\ UNCHANGED <<stylesheet, built, obs, lock, repVars, compVars, locks>>

\* One turn of the first loop of compute_style: the rules are applied to
\* the node, the result is stored and handed to the layout engine.
ComputeStyleNode(t) ==
  /\ calls[t].op = "compute_style"
  /\ calls[t].phase = "style"
  /\ calls[t].pos <= Len(calls[t].vec)
  /\ LET id == calls[t].vec[calls[t].pos]
         styled == [elements EXCEPT ![id].computed = ComputePass(elements, stylesheet, id)]
     IN /\ elements' = styled
        /\ yoga' = prepare_yoga(yoga, styled[id])
        /\ calls' = [calls EXCEPT ![t].pos = @ + 1,
                                  ![t].log = Append(@, <<"prepare_yoga", id>>)]
  /\ UNCHANGED <<stylesheet, built, obs, lock, repVars, compVars, locks>>

\* After the first loop: calculate_layout on the handle of the root.
ComputeStyleLayout(t) ==
  /\ calls[t].op = "compute_style"
  /\ calls[t].phase = "style"
  /\ calls[t].pos > Len(calls[t].vec)
  /\ LET vp == calls[t].viewport
     IN yoga' = YogaCalculateLayout(yoga, elements[root].yg, vp[1], vp[2], vp[3])
  /\ calls' = [calls EXCEPT ![t].phase = "render", ![t].pos = 1,
                            ![t].log = Append(@, <<"calculate_layout", elements[root].yg>>)]
  /\ UNCHANGED <<elements, stylesheet, built, obs, lock, repVars, compVars, locks>>

\* One turn of the second loop of compute_style: update_render reads the
\* layout of the node back. After the last turn the call returns and the
\* guard is dropped.
ComputeStyleRender(t) ==
  /\ calls[t].op = "compute_style"
  /\ calls[t].phase = "render"
  /\ LET id == calls[t].vec[calls[t].pos]
         log == Append(calls[t].log, <<"update_render", id>>)
     IN /\ elements' = [elements EXCEPT ![id] = update_render(yoga, elements[id])]
        /\ IF calls[t].pos < Len(calls[t].vec)
           THEN /\ calls' = [calls EXCEPT ![t].pos = @ + 1, ![t].log = log]
                /\ UNCHANGED <<lock, obs>>
           ELSE /\ calls' = [calls EXCEPT ![t] =
                              IF calls[t].caller = "render_inner"
                              THEN [op |-> "render_inner", viewport |-> calls[t].viewport]
                              ELSE NoCall]
                /\ lock' = unlock(lock, t)
                /\ obs' = [op |-> "compute_style_returned", viewport |-> calls[t].viewport,
                           vec |-> calls[t].vec, log |-> log]
  /\ UNCHANGED <<stylesheet, yoga, built, repVars, compVars, locks>>

\* The rest of render_inner, after compute_style has returned: the lock is
\* taken for writing again, the RenderStyle of every descendant of the root
\* is pushed to the display list, and the guard is dropped.
RenderDraw(t) ==
  /\ calls[t].op = "render_inner"
  /\ write(lock, t).ok
  /\ LET vec == Descendants(elements, root)
     IN obs' = [op |-> "render_inner", viewport |-> calls[t].viewport,
                list |-> [i \in 1..Len(vec) |-> elements[vec[i]].render]]
  /\ calls' = [calls EXCEPT ![t] = NoCall]
  /\ UNCHANGED <<elements, stylesheet, yoga, built, lock, repVars, compVars, locks>>

\* query_selector parses the text, returns None if it is no selector list,
\* and takes the lock for reading otherwise.
QuerySelectorLock(t, text) ==
  /\ built
  /\ calls[t] = NoCall
  /\ LET list == SelectorListParse(text)
         r == read(lock, t)
     IN IF ~list.ok
        THEN /\ obs' = [op |-> "query_selector", text |-> text, result |-> None]
             /\ UNCHANGED <<lock, calls>>
        ELSE /\ r.ok
             /\ lock' = r.lock
             /\ calls' = [calls EXCEPT ![t] = [op |-> "query_selector", text |-> text,
                                               list |-> list.value, pos |-> 1,
                                               seen |-> Snapshot(elements)]]
             /\ obs' = obs
  /\ UNCHANGED <<elements, stylesheet, yoga, built, repVars, compVars, locks>>

\* One turn of the loop of query_selector over arena.iter(); the guard is
\* dropped when the call returns.
QuerySelectorNode(t) ==
  /\ calls[t].op = "query_selector"
  /\ LET pos == calls[t].pos
         found == pos <= Len(elements) /\ matches_selector_list(calls[t].list, elements, pos)
     IN IF pos <= Len(elements) /\ ~found
        THEN /\ calls' = [calls EXCEPT ![t].pos = @ + 1]
             /\ UNCHANGED <<lock, obs>>
        ELSE /\ calls' = [calls EXCEPT ![t] = NoCall]
             /\ lock' = unlock(lock, t)
             /\ obs' = [op |-> "query_selector", text |-> calls[t].text,
                        result |-> IF found THEN pos ELSE None]
  /\ UNCHANGED <<elements, stylesheet, yoga, built, repVars, compVars, locks>>

NextLock ==
  \/ \E p \in 1..Len(elements) : CompileAppendElement(p, LockElement)
  \/ AddRule(RuleX)
  \/ Build
  \/ \E t \in Threads : ComputeStyleLock(t, LockViewport)
  \/ \E t \in Threads : ComputeStyleNode(t)
  \/ \E t \in Threads : ComputeStyleLayout(t)
  \/ \E t \in Threads : ComputeStyleRender(t)
  \/ \E t \in Threads : \E text \in LockQueryPool : QuerySelectorLock(t, text)
  \/ \E t \in Threads : QuerySelectorNode(t)

SpecLock == Init /\ [][NextLock]_vars

\* The layout size of the renderer, and the viewport of the compute_style
\* calls other threads make on the document it shares.
RenderLayoutSize == <<100, 60>>
OtherViewport == <<200, 60, "RTL">>

\* A renderer and other threads on one shared document.
NextRender ==
  \/ \E p \in 1..Len(elements) : CompileAppendElement(p, LockElement)
  \/ AddRule(RuleX)
  \/ Build
  \/ \E t \in Threads : RenderInner(t, RenderLayoutSize)
  \/ \E t \in Threads : ComputeStyleLock(t, OtherViewport)
  \/ \E t \in Threads : ComputeStyleNode(t)
  \/ \E t \in Threads : ComputeStyleLayout(t)
  \/ \E t \in Threads : ComputeStyleRender(t)
  \/ \E t \in Threads : RenderDraw(t)

SpecRender == Init /\ [][NextRender]_vars

(***************************************************************************)
(* The diagnostic reporter of the command line compiler.                   *)
(***************************************************************************)
Levels == {"Bug", "Error", "Warn", "Info"}

\* The kinds whose arm of add_diagnostic unwraps the location.
LocatedKinds ==
  {"ExpectedSelfClosing", "ExpectedClosingTag", "InvalidAttribute", "InvalidElement",
   "InvalidContext", "CssParseError", "SassParseError"}

Diag(level, kind, located) == [min_level |-> level, kind |-> kind, located |-> located]

\* add_diagnostic that sets should_exit from the last diagnostic alone.
add_diagnostic_last_only(exit, d, emitted) ==
  [should_exit |-> d.min_level \in {"Bug", "Error"},
   panicked |-> (d.kind \in LocatedKinds /\ ~d.located) \/ ~emitted]

\* DiagnosticPrinter::add_diagnostic: should_exit is set by the level, then
\* the arm of the kind unwraps the location and term::emit(..) is unwrapped.
add_diagnostic(exit, d, emitted) ==
  [should_exit |-> exit \/ d.min_level \in {"Bug", "Error"},
   panicked |-> (d.kind \in LocatedKinds /\ ~d.located) \/ ~emitted]

\* DiagnosticPrinter::checkpoint
checkpoint(exit) == IF exit THEN "Err" ELSE "Ok"

\* The diagnostics the reporter of the model is given.
DiagPool ==
  {Diag(l, k, TRUE) : l \in Levels, k \in {"InvalidAttribute", "IOError"}}
    \cup {Diag("Info", "InvalidAttribute", FALSE)}

AddDiagnostic(d, emitted) ==
  /\ ~crashed
  /\ Len(added) < MaxDiags
  /\ LET r == add_diagnostic(should_exit, d, emitted)
     IN /\ should_exit' = r.should_exit
        /\ crashed' = r.panicked
  /\ added' = Append(added, d)
  /\ UNCHANGED <<checks, docVars, compVars>>
  /\ UNCHANGED lockVars

Checkpoint ==
  /\ ~crashed
  /\ Len(checks) < MaxChecks
  /\ checks' = Append(checks, [result |-> checkpoint(should_exit), after |-> Len(added)])
  /\ UNCHANGED <<should_exit, added, crashed, docVars, compVars>>
  /\ UNCHANGED lockVars

NextReporter ==
  \/ \E d \in DiagPool : \E emitted \in BOOLEAN : AddDiagnostic(d, emitted)
  \/ Checkpoint

SpecReporter == Init /\ [][NextReporter]_vars

(***************************************************************************)
(* The markup compiler.  The input is the stream of events quick_xml       *)
(* hands to the compile_* functions; an attribute value is its text as a   *)
(* sequence of pieces, the separators " ", "." and "/" being pieces of     *)
(* their own.                                                              *)
(***************************************************************************)
Attr(key, value) == [key |-> key, value |-> value]

RECURSIVE to_string(_)
\* The text of a value.
to_string(value) == IF value = <<>> THEN "" ELSE Head(value) \o to_string(Tail(value))

RECURSIVE SplitFrom(_, _, _)
SplitFrom(value, sep, piece) ==
  IF value = <<>> THEN <<piece>>
  ELSE IF Head(value) = sep THEN <<piece>> \o SplitFrom(Tail(value), sep, "")
  ELSE SplitFrom(Tail(value), sep, piece \o Head(value))

\* str::split: the texts between the separators, the empty ones included.
split(value, sep) == SplitFrom(value, sep, "")

\* str::split_ascii_whitespace: the texts between the blanks, none empty.
split_ascii_whitespace(value) == SelectSeq(split(value, " "), LAMBDA s : s # "")

\* str::to_lowercase, on the type names of the model.
to_lowercase(s) ==
  CASE s = "CSS" -> "css"
    [] s = "Sass" -> "sass"
    [] s = "SCSS" -> "scss"
    [] s = "LESS" -> "less"
    [] OTHER -> s

RECURSIVE LastSegmentFrom(_, _)
LastSegmentFrom(value, segment) ==
  IF value = <<>> THEN segment
  ELSE IF Head(value) = "/" THEN LastSegmentFrom(Tail(value), <<>>)
  ELSE LastSegmentFrom(Tail(value), Append(segment, Head(value)))

\* url.path_segments().unwrap().next_back().unwrap(): the name after the
\* last "/" of the joined url.
LastSegment(value) == LastSegmentFrom(value, <<>>)

\* The type inference that looks at the last piece alone.
StyleTypeOfNameExtOnly(filename) ==
  LET pieces == split(filename, ".")
      ext == pieces[Len(pieces)]
  IN CASE ext = "css" -> "CSS" [] ext = "sass" -> "Sass" [] OTHER -> "SCSS"

\* The type of a linked style that has no type attribute.
StyleTypeOfName(filename) ==
  LET pieces == split(filename, ".")
      ext == pieces[Len(pieces)]
  IN IF Len(pieces) >= 2
     THEN CASE ext = "css" -> "CSS" [] ext = "sass" -> "Sass" [] OTHER -> "SCSS"
     ELSE "SCSS"

\* The value of a type attribute.
StyleTypeNamed(v) ==
  CASE v = "css" -> "CSS" [] v = "sass" -> "Sass" [] v = "scss" -> "SCSS"

\* The text of a rule as a style source holds it: the text of the prelude
\* and the declarations of the block.
CssOf(rule) == [prelude |-> to_css_string(rule.selectors), properties |-> rule.properties]

\* A rule whose prelude is not a selector:  > .x { width: 10px }
CssBad ==
  [prelude |-> <<Tok("gt", ">"), Ws, Tok("dot", "."), Tok("ident", "x")>>,
   properties |-> <<Decl("Width", Px(10))>>]

\* A parse that appends the rules of an input only when all of them parse.
StyleSheetParseAllOrNothing(rules, css) ==
  IF \E i \in 1..Len(css) : ~SelectorListParse(css[i].prelude).ok
  THEN [ok |-> FALSE, rules |-> rules]
  ELSE [ok |-> TRUE,
        rules |-> rules \o [i \in 1..Len(css) |->
                              [selectors |-> SelectorListParse(css[i].prelude).value,
                               properties |-> css[i].properties]]]

RECURSIVE StyleSheetParseInFront(_, _)
\* A parse that puts each rule in front of the rules the stylesheet has.
StyleSheetParseInFront(rules, css) ==
  IF css = <<>> THEN [ok |-> TRUE, rules |-> rules]
  ELSE LET prelude == SelectorListParse(Head(css).prelude)
       IN IF ~prelude.ok THEN [ok |-> FALSE, rules |-> rules]
          ELSE StyleSheetParseInFront(
                 <<[selectors |-> prelude.value, properties |-> Head(css).properties]>> \o rules,
                 Tail(css))

RECURSIVE StyleSheetParse(_, _)
\* StyleSheet::parse: the rules are pushed one by one, up to the first one
\* that does not parse.
StyleSheetParse(rules, css) ==
  IF css = <<>> THEN [ok |-> TRUE, rules |-> rules]
  ELSE LET prelude == SelectorListParse(Head(css).prelude)
       IN IF ~prelude.ok THEN [ok |-> FALSE, rules |-> rules]
          ELSE StyleSheetParse(
                 Append(rules, [selectors |-> prelude.value,
                                properties |-> Head(css).properties]),
                 Tail(css))

\* What a Style element brings besides its attributes: what follows its
\* start tag ("text", "end", "eof" or "element"), whether its url can be
\* fetched, whether libsass compiles it and maps the place of a css error
\* back, and the css that reaches the stylesheet parser.
Content(body, fetched, compiled, mapped, css) ==
  [body |-> body, fetched |-> fetched, compiled |-> compiled, mapped |-> mapped, css |-> css]

NoContent == Content("end", TRUE, TRUE, TRUE, <<>>)

Event(type, name, attrs, content) ==
  [type |-> type, name |-> name, attrs |-> attrs, content |-> content]

\* quick_xml::Reader::read_event with check_end_names: an end tag has to
\* close the element opened last.
read_event(op, ev) ==
  CASE ev.type = "Start" -> [err |-> FALSE, open |-> Append(op, ev.name)]
    [] ev.type = "End" ->
         IF op # <<>> /\ op[Len(op)] = ev.name
         THEN [err |-> FALSE, open |-> SubSeq(op, 1, Len(op) - 1)]
         ELSE [err |-> TRUE, open |-> op]
    [] OTHER -> [err |-> FALSE, open |-> op]

\* quick_xml::Reader::read_text: the text up to the end tag, an error at the
\* end of the input or at a child element.
read_text(content) == content.body \in {"text", "end"}

\* handle_error_with_location!: the error becomes a diagnostic.
HandleErrorWithLocation == Diag("Error", "IOError", TRUE)

RECURSIVE StyleAttributes(_, _, _)
\* The loops of compile_style over the attributes: src (of a self-closing
\* Style), type, and an Info diagnostic for any other.
StyleAttributes(attrs, empty, acc) ==
  IF attrs = <<>> THEN acc
  ELSE LET attr == Head(attrs) IN
       IF attr.key = "src" /\ empty
       THEN StyleAttributes(Tail(attrs), empty, [acc EXCEPT !.src = <<attr.value>>])
       ELSE IF attr.key = "type"
       THEN LET v == to_lowercase(to_string(attr.value)) IN
            IF v \in {"css", "sass", "scss"}
            THEN StyleAttributes(Tail(attrs), empty, [acc EXCEPT !.ty = <<StyleTypeNamed(v)>>])
            ELSE [acc EXCEPT !.panicked = TRUE]
       ELSE StyleAttributes(Tail(attrs), empty,
              [acc EXCEPT !.diags = Append(@, Diag("Info", "InvalidAttribute", TRUE))])

\* Context::compile_style: [result, diags, rules, ty], the result being
\* "ok", "err" or "panic", the diagnostics those it adds, in order, and ty
\* the type of the source ("none" when a panic comes before it is known).
compile_style(e, empty, rules) ==
  LET at == StyleAttributes(e.attrs, empty,
              [src |-> <<>>, ty |-> <<>>, diags |-> <<>>, panicked |-> FALSE])
      ty == IF at.ty # <<>> THEN at.ty[1]
            ELSE IF empty THEN StyleTypeOfName(LastSegment(at.src[1]))
            ELSE "SCSS"
      Result(r, ds, rs) ==
        [result |-> r, diags |-> ds, rules |-> rs,
         ty |-> IF at.panicked \/ (empty /\ at.src = <<>>) THEN "none" ELSE ty]
      parsed == StyleSheetParse(rules, e.content.css)
  IN IF at.panicked THEN Result("panic", at.diags, rules)
     ELSE IF empty /\ at.src = <<>> THEN Result("panic", at.diags, rules)
     ELSE IF ~empty /\ ~read_text(e.content)
       THEN Result("err", Append(at.diags, HandleErrorWithLocation), rules)
     ELSE IF empty /\ ~e.content.fetched
       THEN Result("err", Append(at.diags, HandleErrorWithLocation), rules)
     ELSE IF ty # "CSS" /\ ~e.content.compiled
       THEN Result("err", Append(at.diags, Diag("Error", "SassParseError", TRUE)), rules)
     ELSE IF parsed.ok THEN Result("ok", at.diags, parsed.rules)
     ELSE IF ty # "CSS" /\ ~e.content.mapped THEN Result("panic", at.diags, parsed.rules)
     ELSE Result("err", Append(at.diags, Diag("Error", "CssParseError", TRUE)), parsed.rules)

\* The level of the diagnostic compile_unstyled adds for an attribute it
\* does not know.  Its Diagnostic has no level field; the level is the one
\* the specification names, which is also the one compile_style gives the
\* diagnostic of the same kind.
InvalidAttributeLevel == "Info"

RECURSIVE UnstyledAttributes(_, _)
\* The loop of compile_unstyled over the attributes.
UnstyledAttributes(attrs, acc) ==
  IF attrs = <<>> THEN acc
  ELSE LET attr == Head(attrs) IN
       CASE attr.key = "class" ->
              UnstyledAttributes(Tail(attrs),
                [acc EXCEPT !.classes = split_ascii_whitespace(attr.value)])
         [] attr.key = "id" ->
              UnstyledAttributes(Tail(attrs), [acc EXCEPT !.id = <<to_string(attr.value)>>])
         [] attr.key = "style" -> [acc EXCEPT !.panicked = TRUE]
         [] OTHER ->
              UnstyledAttributes(Tail(attrs),
                [acc EXCEPT !.diags =
                   Append(@, Diag(InvalidAttributeLevel, "InvalidAttribute", TRUE))])

\* compile_unstyled that leaves the loop at the first attribute it does
\* not know.
compile_unstyled_stop_at_invalid(e) ==
  LET known == {"class", "id", "style"}
      first == IF \E i \in 1..Len(e.attrs) : e.attrs[i].key \notin known
               THEN CHOOSE i \in 1..Len(e.attrs) :
                      /\ e.attrs[i].key \notin known
                      /\ \A j \in 1..(i - 1) : e.attrs[j].key \in known
               ELSE Len(e.attrs)
  IN UnstyledAttributes(SubSeq(e.attrs, 1, first),
       [classes |-> <<>>, id |-> <<>>, diags |-> <<>>, panicked |-> FALSE])

\* Context::compile_unstyled up to new_node: the element and the
\* diagnostics of the attributes, or the panic of a style attribute.
compile_unstyled(e) ==
  UnstyledAttributes(e.attrs,
    [classes |-> <<>>, id |-> <<>>, diags |-> <<>>, panicked |-> FALSE])

\* The attributes of the Unstyled elements of the model:
\*   class="x y" id="a"   title="t" id="a"   style="w"
UnstyledAttrPool ==
  { <<Attr("class", <<"x", " ", "y">>), Attr("id", <<"a">>)>>,
    <<Attr("title", <<"t">>), Attr("id", <<"a">>)>>,
    <<Attr("style", <<"w">>)>> }

\* The Style elements with content of the model: css that parses, css
\* whose second rule does not, scss, scss libsass rejects, a type that is
\* not known, an attribute that is not known, a child element.
InlineStylePool ==
  { Event("Start", "Style", <<Attr("type", <<"css">>)>>,
          Content("text", TRUE, TRUE, TRUE, <<CssOf(RuleX)>>)),
    Event("Start", "Style", <<Attr("type", <<"CSS">>)>>,
          Content("text", TRUE, TRUE, TRUE, <<CssOf(RuleA), CssBad, CssOf(RuleX)>>)),
    Event("Start", "Style", <<>>,
          Content("text", TRUE, TRUE, TRUE, <<CssOf(RuleEmpty)>>)),
    Event("Start", "Style", <<>>,
          Content("text", TRUE, FALSE, TRUE, <<>>)),
    Event("Start", "Style", <<Attr("type", <<"less">>)>>,
          Content("text", TRUE, TRUE, TRUE, <<CssOf(RuleX)>>)),
    Event("Start", "Style", <<Attr("media", <<"m">>), Attr("type", <<"css">>)>>,
          Content("end", TRUE, TRUE, TRUE, <<>>)),
    Event("Start", "Style", <<>>,
          Content("element", TRUE, TRUE, TRUE, <<>>)) }

\* The self-closing Style elements of the model: a.css, noext, a.b.scss,
\* x.sass, one with no src, one whose url d/css cannot be fetched.
LinkedStylePool ==
  { Event("Empty", "Style", <<Attr("src", <<"a", ".", "css">>)>>,
          Content("end", TRUE, TRUE, TRUE, <<CssOf(RuleA)>>)),
    Event("Empty", "Style", <<Attr("src", <<"noext">>)>>,
          Content("end", TRUE, TRUE, FALSE, <<CssBad>>)),
    Event("Empty", "Style", <<>>,
          Content("end", TRUE, TRUE, TRUE, <<>>)),
    Event("Empty", "Style", <<Attr("src", <<"a", ".", "b", ".", "scss">>)>>,
          Content("end", TRUE, TRUE, TRUE, <<CssOf(RuleX)>>)),
    Event("Empty", "Style", <<Attr("src", <<"x", ".", "sass">>)>>,
          Content("end", TRUE, FALSE, TRUE, <<>>)),
    Event("Empty", "Style", <<Attr("src", <<"d", "/", "css">>)>>,
          Content("end", FALSE, TRUE, TRUE, <<>>)) }

\* The events of the model.
Events ==
  {Event(t, n, <<>>, NoContent) : t \in {"Start", "Empty"}, n \in {"Frame", "Head", "Body", "Other"}}
    \cup {Event(t, "Unstyled", a, NoContent) : t \in {"Start", "Empty"}, a \in UnstyledAttrPool}
    \cup InlineStylePool \cup LinkedStylePool
    \cup {Event("End", n, <<>>, NoContent) : n \in {"Frame", "Head", "Body", "Unstyled", "Other"}}
    \cup {Event(t, "", <<>>, NoContent) :
            t \in {"Text", "CData", "PI", "DocType", "Comment", "Eof"}}

IsElement(ev, name) == ev.type \in {"Start", "Empty"} /\ ev.name = name

\* The positions of the elements of a name among the events read.
ElementsRead(name) == {i \in 1..Len(input) : IsElement(input[i], name)}

\* A call that is always given the root as the parent.
CallUnderRoot(fn, parent) ==
  [fn |-> fn, found_frame |-> FALSE, found_head |-> FALSE, found_body |-> FALSE,
   parent |-> root]

Call(fn, parent) ==
  [fn |-> fn, found_frame |-> FALSE, found_head |-> FALSE, found_body |-> FALSE,
   parent |-> parent]

Top == stack[Len(stack)]
Caller == SubSeq(stack, 1, Len(stack) - 1)
Running(fn) == outcome = "running" /\ Top.fn = fn

\* compile_root that enters every Frame.
compile_root_any_frame(top, r, ev) ==
  IF r.err THEN "err"
  ELSE CASE ev.type = "Start" -> IF ev.name = "Frame" THEN "frame" ELSE "panic"
         [] ev.type \in {"End", "Eof"} -> "break"
         [] OTHER -> "panic"

\* One turn of the loop of Context::compile_root.
compile_root(top, r, ev) ==
  IF r.err THEN "err"
  ELSE CASE ev.type = "Start" ->
              IF ev.name = "Frame"
              THEN IF top.found_frame THEN "panic" ELSE "frame"
              ELSE "panic"
         [] ev.type \in {"End", "Eof"} -> "break"
         [] OTHER -> "panic"

\* compile_frame that returns without looking at found_body.
compile_frame_no_body_check(top, r, ev) ==
  IF r.err THEN "err"
  ELSE CASE ev.type = "Start" ->
              CASE ev.name = "Head" -> IF top.found_head THEN "panic" ELSE "head"
                [] ev.name = "Body" -> IF top.found_body THEN "panic" ELSE "body"
                [] OTHER -> "panic"
         [] ev.type = "End" -> "return"
         [] OTHER -> "panic"

\* One turn of the loop of Context::compile_frame, and the check after it.
compile_frame(top, r, ev) ==
  IF r.err THEN "err"
  ELSE CASE ev.type = "Start" ->
              CASE ev.name = "Head" -> IF top.found_head THEN "panic" ELSE "head"
                [] ev.name = "Body" -> IF top.found_body THEN "panic" ELSE "body"
                [] OTHER -> "panic"
         [] ev.type = "End" -> IF top.found_body THEN "return" ELSE "panic"
         [] OTHER -> "panic"

\* One turn of the loop of Context::compile_head.
compile_head(r, ev) ==
  IF r.err THEN "err"
  ELSE CASE ev.type \in {"Start", "Empty"} -> IF ev.name = "Style" THEN "style" ELSE "panic"
         [] ev.type = "End" -> "return"
         [] OTHER -> "panic"

\* One turn of the loop of Context::compile_ui_element.
compile_ui_element(r, ev) ==
  IF r.err THEN "err"
  ELSE CASE ev.type = "Start" -> IF ev.name = "Unstyled" THEN "unstyled" ELSE "panic"
         [] ev.type = "End" -> "return"
         [] OTHER -> "panic"

\* How compile goes on after a turn of a loop.
OutcomeOf(next) == IF next \in {"panic", "err"} THEN next ELSE "running"

RECURSIVE ReportAll(_, _)
\* should_exit after the diagnostics were added; every one has a location.
ReportAll(exit, ds) ==
  IF ds = <<>> THEN exit
  ELSE ReportAll(add_diagnostic(exit, Head(ds), TRUE).should_exit, Tail(ds))

\* compile up to the call of compile_root: the url is opened.
Compile(readable) ==
  /\ outcome = "none"
  /\ outcome' = IF readable THEN "running" ELSE "err"
  /\ stack' = IF readable THEN <<Call("compile_root", root)>> ELSE <<>>
  /\ UNCHANGED <<input, open, docVars, repVars>>
  /\ UNCHANGED lockVars

\* compile_root reads an event; when its loop ends compile makes the
\* document of the arena and the stylesheet and calls init_yoga.
ReadRoot(ev) ==
  /\ Running("compile_root")
  /\ LET r == read_event(open, ev)
         next == compile_root(Top, r, ev)
     IN /\ open' = r.open
        /\ outcome' = IF next = "break" THEN "ok" ELSE OutcomeOf(next)
        /\ stack' = CASE next = "frame" ->
                           <<[Top EXCEPT !.found_frame = TRUE], Call("compile_frame", root)>>
                      [] next = "break" -> <<>>
                      [] OTHER -> stack
        /\ built' = (next = "break")
        /\ yoga' = IF next = "break" THEN init_yoga(yoga, elements, root) ELSE yoga
  /\ input' = Append(input, ev)
  /\ UNCHANGED <<elements, stylesheet, obs, repVars>>
  /\ UNCHANGED lockVars

ReadFrame(ev) ==
  /\ Running("compile_frame")
  /\ LET r == read_event(open, ev)
         next == compile_frame(Top, r, ev)
     IN /\ open' = r.open
        /\ outcome' = OutcomeOf(next)
        /\ stack' = CASE next = "head" ->
                           Caller \o <<[Top EXCEPT !.found_head = TRUE],
                                       Call("compile_head", root)>>
                      [] next = "body" ->
                           Caller \o <<[Top EXCEPT !.found_body = TRUE],
                                       Call("compile_ui_element", root)>>
                      [] next = "return" -> Caller
                      [] OTHER -> stack
  /\ input' = Append(input, ev)
  /\ UNCHANGED <<docVars, repVars>>
  /\ UNCHANGED lockVars

\* compile_head reads an event; a Style element is compiled by
\* compile_style and its error ends compile.
ReadHead(ev) ==
  /\ Running("compile_head")
  /\ IsElement(ev, "Style") => Cardinality(ElementsRead("Style")) < MaxStyles
  /\ LET r == read_event(open, ev)
         next == compile_head(r, ev)
         s == compile_style(ev, ev.type = "Empty", stylesheet)
     IN IF next = "style"
        THEN /\ open' = IF s.result = "ok" THEN open ELSE r.open
             /\ outcome' = OutcomeOf(s.result)
             /\ stylesheet' = s.rules
             /\ added' = added \o s.diags
             /\ should_exit' = ReportAll(should_exit, s.diags)
             /\ stack' = stack
        ELSE /\ open' = r.open
             /\ outcome' = OutcomeOf(next)
             /\ stack' = IF next = "return" THEN Caller ELSE stack
             /\ UNCHANGED <<stylesheet, added, should_exit>>
  /\ input' = Append(input, ev)
  /\ UNCHANGED <<elements, yoga, built, obs, checks, crashed>>
  /\ UNCHANGED lockVars

\* compile_ui_element reads an event; an Unstyled element is made by
\* compile_unstyled, appended to its parent, and its content is read next.
ReadUiElement(ev) ==
  /\ Running("compile_ui_element")
  /\ (ev.type = "Start" /\ ev.name = "Unstyled") => Len(elements) < MaxNodes + 1
  /\ LET r == read_event(open, ev)
         next == compile_ui_element(r, ev)
         el == compile_unstyled(ev)
         node == Len(elements) + 1
     IN IF next = "unstyled"
        THEN /\ added' = added \o el.diags
             /\ should_exit' = ReportAll(should_exit, el.diags)
             /\ outcome' = IF el.panicked THEN "panic" ELSE "running"
             /\ elements' =
                  IF el.panicked THEN elements
                  ELSE ArenaAppend(
                         Append(elements,
                                NewElement("Unstyled", el.classes, el.id, Len(yoga) + 1)),
                         Top.parent, node)
             /\ yoga' = IF el.panicked THEN yoga ELSE Append(yoga, NewYogaNode)
             /\ stack' = IF el.panicked THEN stack
                         ELSE Append(stack, Call("compile_ui_element", node))
             /\ open' = r.open
        ELSE /\ open' = r.open
             /\ outcome' = OutcomeOf(next)
             /\ stack' = IF next = "return" THEN Caller ELSE stack
             /\ UNCHANGED <<elements, yoga, added, should_exit>>
  /\ input' = Append(input, ev)
  /\ UNCHANGED <<stylesheet, built, obs, checks, crashed>>
  /\ UNCHANGED lockVars

NextCompile ==
  \/ \E readable \in BOOLEAN : Compile(readable)
  \/ \E ev \in Events : ReadRoot(ev)
  \/ \E ev \in Events : ReadFrame(ev)
  \/ \E ev \in Events : ReadHead(ev)
  \/ \E ev \in Events : ReadUiElement(ev)
  \/ ComputeStyle(LockViewport)
  \/ \E text \in LockQueryPool : QuerySelector(text)

SpecCompile == Init /\ [][NextCompile]_vars

(***************************************************************************)
(* The locks of the nodes of dom/tree.rs.  Every Node is an                *)
(* Arc<RwLock<NodeInner>>: inner() takes the lock of the node for reading, *)
(* append takes it for writing.  The lock lets no new reader in while a    *)
(* thread waits to write.  The links of the nodes are those of elements.   *)
(***************************************************************************)
\* RwLock::read on a node: granted while no thread holds the lock for
\* writing and none waits to.
CanRead(l) == l.writer = None /\ l.waiting = {}

\* RwLock::write on a node: granted while no thread holds the lock.
CanWrite(l) == l.writer = None /\ l.readers = {}

\* Traverse::new: the iterator starts at the start edge of the root.
TraverseNew(t) ==
  /\ calls[t] = NoCall
  /\ calls' = [calls EXCEPT ![t] = [op |-> "traverse", edge |-> "Start", node |-> root,
                                    held |-> FALSE]]
  /\ UNCHANGED <<lock, locks, docVars, repVars, compVars>>

\* Traverse::next_of_next up to its first read of the node.  At a start edge
\* and at an end edge with a next sibling the guard is dropped with the
\* result; at an end edge without a next sibling the guard of the match
\* stays held for the read that follows.
TraverseNext(t) ==
  /\ calls[t].op = "traverse"
  /\ ~calls[t].held
  /\ LET node == calls[t].node
         inner == elements[node]
     IN IF calls[t].edge = "End" /\ node = root
        THEN /\ calls' = [calls EXCEPT ![t] = NoCall]
             /\ locks' = locks
        ELSE /\ CanRead(locks[node])
             /\ IF calls[t].edge = "Start"
                THEN /\ calls' = [calls EXCEPT
                                    ![t].edge = IF inner.first_child # None THEN "Start" ELSE "End",
                                    ![t].node = IF inner.first_child # None THEN inner.first_child
                                                ELSE node]
                     /\ locks' = locks
                ELSE IF inner.next_sibling # None
                THEN /\ calls' = [calls EXCEPT ![t].edge = "Start",
                                               ![t].node = inner.next_sibling]
                     /\ locks' = locks
                ELSE /\ calls' = [calls EXCEPT ![t].held = TRUE]
                     /\ locks' = [locks EXCEPT ![node].readers = @ \cup {t}]
  /\ UNCHANGED <<lock, docVars, repVars, compVars>>

\* The None arm of next_of_next: node.inner() reads the node again for its
\* parent while the guard of the match is held; both guards are dropped
\* with the result.
TraverseNextParent(t) ==
  /\ calls[t].op = "traverse"
  /\ calls[t].held
  /\ LET node == calls[t].node
     IN /\ CanRead(locks[node])
        /\ locks' = [locks EXCEPT ![node].readers = @ \ {t}]
        /\ calls' = IF elements[node].parent = None
                    THEN [calls EXCEPT ![t] = NoCall]
                    ELSE [calls EXCEPT ![t].edge = "End", ![t].node = elements[node].parent,
                                       ![t].held = FALSE]
  /\ UNCHANGED <<lock, docVars, repVars, compVars>>

\* The threads that are in an append.
Appending == {t \in Threads : calls[t].op = "append"}

\* Node::append begins: the thread asks for the lock of the parent for
\* writing.
AppendBegin(t, parent) ==
  /\ calls[t] = NoCall
  /\ Len(elements) + Cardinality(Appending) < MaxTreeNodes + 1
  /\ calls' = [calls EXCEPT ![t] = [op |-> "append", parent |-> parent, waits |-> parent]]
  /\ locks' = [locks EXCEPT ![parent].waiting = @ \cup {t}]
  /\ UNCHANGED <<lock, docVars, repVars, compVars>>

\* The new node is linked as the last child of the parent, with a lock of
\* its own, and the guards of the thread are dropped.
AppendLink(t, parent, held) ==
  LET node == Len(elements) + 1
      created == Append(elements, NewElement("Unstyled", <<>>, <<>>, Len(yoga) + 1))
  IN /\ elements' = ArenaAppend(created, parent, node)
     /\ yoga' = Append(yoga, NewYogaNode)
     /\ locks' = Append([i \in 1..Len(locks) |->
                           IF i \in held
                           THEN [locks[i] EXCEPT !.writer = None, !.waiting = @ \ {t}]
                           ELSE locks[i]],
                        NewNodeLock)
     /\ calls' = [calls EXCEPT ![t] = NoCall]

\* Node::append is given the lock of the parent.  Without a last child the
\* node is linked; with one the thread asks for the lock of the last child
\* for writing, holding the lock of the parent.
AppendWriteParent(t) ==
  /\ calls[t].op = "append"
  /\ calls[t].waits = calls[t].parent
  /\ LET parent == calls[t].parent
         last == elements[parent].last_child
     IN /\ CanWrite(locks[parent])
        /\ IF last = None
           THEN AppendLink(t, parent, {parent})
           ELSE /\ locks' = [locks EXCEPT ![parent].writer = t, ![parent].waiting = @ \ {t},
                                          ![last].waiting = @ \cup {t}]
                /\ calls' = [calls EXCEPT ![t].waits = last]
                /\ UNCHANGED <<elements, yoga>>
  /\ UNCHANGED <<lock, stylesheet, built, obs, repVars, compVars>>

\* Node::append is given the lock of the last child: the node is linked.
AppendWriteLast(t) ==
  /\ calls[t].op = "append"
  /\ calls[t].waits # calls[t].parent
  /\ CanWrite(locks[calls[t].waits])
  /\ AppendLink(t, calls[t].parent, {calls[t].parent, calls[t].waits})
  /\ UNCHANGED <<lock, stylesheet, built, obs, repVars, compVars>>

NextNodeLock ==
  \/ \E t \in Threads : TraverseNew(t)
  \/ \E t \in Threads : TraverseNext(t)
  \/ \E t \in Threads : TraverseNextParent(t)
  \/ \E t \in Threads : \E parent \in 1..Len(elements) : AppendBegin(t, parent)
  \/ \E t \in Threads : AppendWriteParent(t)
  \/ \E t \in Threads : AppendWriteLast(t)

SpecNodeLock == Init /\ [][NextNodeLock]_vars

(***************************************************************************)
(* Properties of the document.                                             *)
(***************************************************************************)
Max(S) == CHOOSE x \in S : \A y \in S : y <= x
Min(S) == CHOOSE x \in S : \A y \in S : x <= y

TreeNodes == Range(Descendants(elements, root))

\* The field of ComputedStyle a declaration is about.
PropertyOf(d) ==
  CASE d.decl = "Width" -> "width"
    [] d.decl = "Height" -> "height"
    [] d.decl = "BackgroundColor" -> "background_color"
    [] d.decl = "MarginTop" -> "margin_top"
    [] d.decl = "MarginBottom" -> "margin_bottom"
    [] d.decl = "MarginLeft" -> "margin_left"
    [] d.decl = "MarginRight" -> "margin_right"

Declares(rule, P) == {j \in 1..Len(rule.properties) : PropertyOf(rule.properties[j]) = P}

\* The value of property P the cascade gives node n: the one declared last
\* by the last matching rule that declares P, else the default.
Cascaded(rules, a, n, P) ==
  LET matching == {i \in 1..Len(rules) :
                     /\ matches_selector_list(rules[i].selectors, a, n)
                     /\ Declares(rules[i], P) # {}}
  IN IF matching = {} THEN DefaultComputedStyle[P]
     ELSE LET rule == rules[Max(matching)]
          IN rule.properties[Max(Declares(rule, P))].value

\* C1: after compute_style, every node of the tree holds for every property
\* the value declared by the last matching rule of the stylesheet that
\* declares it, and the default value when no matching rule declares it.
C1_LastRuleWins ==
  obs.op = "compute_style" =>
    \A n \in TreeNodes : \A P \in Properties :
      elements[n].computed[P] = Cascaded(stylesheet, elements, n, P)

\* C2: a compute_style pass that directly follows a pass with the same
\* viewport width, height and direction leaves every node with the
\* ComputedStyle and the RenderStyle it had before the pass.
C2_Idempotent ==
  (obs.op = "compute_style" /\ obs.repeat) => Snapshot(elements) = obs.before

\* A repeated pass over a tree of three nodes whose styles are not the
\* defaults and whose layout was computed.
C2_Witness ==
  /\ obs.op = "compute_style" /\ obs.repeat
  /\ Len(elements) = 3
  /\ \E n \in TreeNodes : /\ elements[n].computed.width # DefaultComputedStyle.width
                          /\ elements[n].render.width # NaN
                          /\ elements[n].render.top > 0

\* The tree below r, without the identities of the nodes: the nodes in
\* descendant order, each with its element and the position of its parent.
Shape(a, r) ==
  LET d == Descendants(a, r)
      pos(n) == IF n = None \/ n \notin Range(d) THEN 0
                ELSE CHOOSE i \in 1..Len(d) : d[i] = n
  IN [i \in 1..Len(d) |->
        [data |-> a[d[i]].data, classes |-> a[d[i]].classes, id |-> a[d[i]].id,
         parent |-> IF d[i] = r THEN 0 ELSE pos(a[d[i]].parent),
         previous |-> pos(a[d[i]].previous_sibling),
         last |-> pos(a[d[i]].last_child)]]

IdText(v) == <<Tok("hash", v)>>
ClassText(v) == <<Tok("dot", "."), Tok("ident", v)>>
Names == {"a", "x", "y", "z", "X"}

\* C4: query_selector with an id selector returns a node with that id when
\* the document has one and nothing otherwise; with a class selector it
\* returns a node whose class list holds that name (same case) when the
\* document has one and nothing otherwise.
C4_QueryMatches ==
  obs.op = "query_selector" =>
    \A v \in Names :
      /\ obs.text = IdText(v) =>
           IF \E n \in 1..Len(elements) : elements[n].id = <<v>>
           THEN obs.result # None /\ elements[obs.result].id = <<v>>
           ELSE obs.result = None
      /\ obs.text = ClassText(v) =>
           IF \E n \in 1..Len(elements) : v \in Range(elements[n].classes)
           THEN obs.result # None /\ v \in Range(elements[obs.result].classes)
           ELSE obs.result = None

\* The node with id a and classes x, y is returned for .y while .z, asked
\* of the same tree, would match no node.
C4_Witness ==
  /\ obs.op = "query_selector"
  /\ obs.text = ClassText("y")
  /\ obs.result # None
  /\ elements[obs.result].id = <<"a">>
  /\ elements[obs.result].classes = <<"x", "y">>
  /\ query_selector(elements, ClassText("z")) = None
  /\ query_selector(elements, IdText("a")) = obs.result

\* The first node, in descendant order from the root, that the list matches.
PreOrderFirst(a, r, list) ==
  LET d == Descendants(a, r)
      hits == {i \in 1..Len(d) : matches_selector_list(list, a, d[i])}
  IN IF hits = {} THEN None ELSE d[Min(hits)]

\* C5: query_selector returns the matching node that comes first in the
\* pre-order traversal from the root, a node of the tree, for every tree,
\* in whatever order its nodes were created and attached.
C5_FirstInPreOrder ==
  (obs.op = "query_selector" /\ SelectorListParse(obs.text).ok) =>
    /\ obs.result = PreOrderFirst(elements, root, SelectorListParse(obs.text).value)
    /\ obs.result # None => obs.result \in TreeNodes

(***************************************************************************)
(* Properties of the reporter.                                             *)
(***************************************************************************)
\* The diagnostics at Error or Bug level among the first n added.
Failing(n) == {j \in 1..n : added[j].min_level \in {"Error", "Bug"}}

\* C6: a checkpoint() call fails if and only if a diagnostic at Error or Bug
\* level was added to the reporter before it; Info and Warn diagnostics
\* alone leave it succeeding, and after an Error or Bug diagnostic every
\* later call fails.
C6_CheckpointGating ==
  \A i \in 1..Len(checks) :
    checks[i].result = "Err" <=> Failing(checks[i].after) # {}

\* A checkpoint that succeeds after a Warn or Info diagnostic, then one that
\* fails after an Error or Bug diagnostic, then one that still fails after a
\* further Info or Warn diagnostic.
C6_Witness ==
  /\ Len(checks) = 3
  /\ checks[1].result = "Ok" /\ checks[1].after > 0
  /\ checks[2].result = "Err" /\ checks[2].after > checks[1].after
  /\ checks[3].result = "Err" /\ checks[3].after > checks[2].after
  /\ added[checks[3].after].min_level \in {"Info", "Warn"}

(***************************************************************************)
(* Properties of compile.                                                  *)
(***************************************************************************)
\* C7: compile consults checkpoint once, at the end of compilation, and
\* returns a CompiledDocument only if no diagnostic at Error or Bug level
\* was recorded during the compile (stated for the input that has a Frame).
C7_CheckpointOnce ==
  (outcome = "ok" /\ ElementsRead("Frame") # {}) =>
    /\ Len(checks) = 1
    /\ checks[1].after = Len(added)
    /\ Failing(Len(added)) = {}

\* C8: a second Frame, a second Head or a second Body stops compile at that
\* element with a panic and no document is made, whatever was read before.
C8_DuplicatesAbort ==
  \A name \in {"Frame", "Head", "Body"} :
    \A i, j \in ElementsRead(name) :
      i < j => (j = Len(input) /\ outcome = "panic" /\ ~built)

\* A Frame with a Head and a Body that holds an element: the start tag of a
\* second Body stops compile_frame.
C8_Witness ==
  /\ outcome = "panic"
  /\ Cardinality(ElementsRead("Body")) = 2
  /\ ElementsRead("Head") # {}
  /\ Len(elements) > 1
  /\ input[Len(input)].type = "Start"
  /\ Top.fn = "compile_frame"

RECURSIVE OpenAfter(_)
\* The elements open after the first n events; a Style element is read up
\* to its end tag by compile_style.
OpenAfter(n) ==
  IF n = 0 THEN <<>>
  ELSE IF IsElement(input[n], "Style") THEN OpenAfter(n - 1)
  ELSE read_event(OpenAfter(n - 1), input[n]).open

\* Event i is the end tag of the Frame.
FrameCloses(i) ==
  /\ input[i].type = "End"
  /\ input[i].name = "Frame"
  /\ OpenAfter(i - 1) = <<"Frame">>

StartsBefore(name, i) ==
  {j \in 1..(i - 1) : input[j].type = "Start" /\ input[j].name = name}

\* C9: when the Frame closes without a Body before, compile panics there
\* and makes no document; when it closes after a Body, with or without a
\* Head, before or after the Body, compile goes on and the end of the input
\* makes the document.
C9_BodyMandatory ==
  \A i \in 1..Len(input) :
    FrameCloses(i) =>
      IF StartsBefore("Body", i) # {}
      THEN /\ i = Len(input) => outcome = "running"
           /\ (i + 1 = Len(input) /\ input[i + 1].type = "Eof") => (outcome = "ok" /\ built)
      ELSE i = Len(input) /\ outcome = "panic" /\ ~built

\* A document whose Body, holding an element, comes before its Head, whose
\* Style gave the stylesheet a rule.
C9_Witness ==
  /\ outcome = "ok"
  /\ built
  /\ \E b \in StartsBefore("Body", Len(input)) :
       \E h \in StartsBefore("Head", Len(input)) : b < h
  /\ Len(elements) > 1
  /\ stylesheet # <<>>

\* C10: every document compile returns came from input with exactly one
\* Frame element.
C10_OneFrame ==
  outcome = "ok" => Cardinality(ElementsRead("Frame")) = 1


(***************************************************************************)
(* Properties of the Style elements.                                       *)
(***************************************************************************)
\* The attribute of a key among the attributes of an element, as a set.
AttrsOf(ev, key) == {ev.attrs[i] : i \in {j \in 1..Len(ev.attrs) : ev.attrs[j].key = key}}

\* The self-closing Style elements read that have a src and no type.
LinkedUntyped ==
  {i \in ElementsRead("Style") :
     /\ input[i].type = "Empty"
     /\ AttrsOf(input[i], "type") = {}
     /\ AttrsOf(input[i], "src") # {}}

\* The pieces of the name after the last "/" of the src of a Style element.
FileNameOf(ev) == LastSegment((CHOOSE at \in AttrsOf(ev, "src") : TRUE).value)

\* The text after the last "." of a name that has one.
AfterLastDot(name) ==
  LET dots == {i \in 1..Len(name) : name[i] = "."}
  IN to_string(SubSeq(name, Max(dots) + 1, Len(name)))

\* C11: a self-closing Style with a src and no type attribute has the type
\* its file name gives it: CSS when the name has a dot and ends in ".css",
\* Sass when it has a dot and ends in ".sass", SCSS for any other name, the
\* names with no dot among them.
C11_TypeInference ==
  \A i \in LinkedUntyped :
    LET name == FileNameOf(input[i])
        dotted == \E j \in 1..Len(name) : name[j] = "."
        ty == compile_style(input[i], TRUE, <<>>).ty
    IN /\ (dotted /\ AfterLastDot(name) = "css") => ty = "CSS"
       /\ (dotted /\ AfterLastDot(name) = "sass") => ty = "Sass"
       /\ (~dotted \/ AfterLastDot(name) \notin {"css", "sass"}) => ty = "SCSS"

\* compile_head has compiled a.b.scss into the stylesheet and has read the
\* dotless name css as well.
C11_Witness ==
  /\ stylesheet # <<>>
  /\ \E i, j \in LinkedUntyped :
       /\ to_string(FileNameOf(input[i])) = "a.b.scss"
       /\ to_string(FileNameOf(input[j])) = "css"
       /\ compile_style(input[i], TRUE, <<>>).ty = "SCSS"
(***************************************************************************)
(* Properties of the lock.                                                 *)
(***************************************************************************)
In(op) == {t \in Threads : calls[t].op = op}

\* C12: at no time are two compute_style calls in progress, no
\* query_selector scan is in progress while a compute_style call is, and
\* the styles of the nodes do not change under a scan: they are those the
\* scan found when it took the lock.
C12_LockDiscipline ==
  /\ Cardinality(In("compute_style")) <= 1
  /\ In("compute_style") # {} => In("query_selector") = {}
  /\ \A t \in In("query_selector") : Snapshot(elements) = calls[t].seen

\* Two scans are under way at once, both past the root, on a document a
\* compute_style pass has styled.
C12_Witness ==
  /\ \E t, u \in In("query_selector") : t # u /\ calls[t].pos >= 2 /\ calls[u].pos >= 2
  /\ \E n \in 1..Len(elements) : elements[n].computed # DefaultComputedStyle

(***************************************************************************)
(* Properties of the saved form.                                           *)
(***************************************************************************)
\* The bytes that precede the encoded tree in the output of save, given its
\* version byte.
HeaderOf(version) == <<version>>

\* C13: save writes a header of five bytes before the encoded tree, and
\* load of an input whose header is not the one save writes fails and
\* produces no document.
C13_HeaderValidated ==
  obs.op = "load_from" =>
    /\ Len(HeaderOf(obs.saved)) = 5
    /\ HeaderOf(obs.version) # HeaderOf(obs.saved) => obs.doc.panicked

(***************************************************************************)
(* Properties of the layout handles.                                       *)
(***************************************************************************)
\* Every handle of a node of the tree of a from r has been freed once.
AllFreedOnce(a, r, yg) == \A n \in Range(Descendants(a, r)) : yg[a[n].yg].freed = 1

Reads(type) == input' # input /\ input'[Len(input')].type = type

\* C15: a comment is ignored wherever it is read: the step that reads it
\* leaves the calls in progress, the tree, the stylesheet and the
\* diagnostics as they were, and compile goes on as it would without it.
C15_CommentsIgnored ==
  [][Reads("Comment") =>
       /\ outcome' = outcome
       /\ stack' = stack
       /\ UNCHANGED <<elements, stylesheet, added>>]_vars

\* The step reads content that is no element and no comment: text, CDATA,
\* a processing instruction, a DOCTYPE, or the end of the input while an
\* element is open.
ReadsUnexpected ==
  \/ \E type \in {"Text", "CData", "PI", "DocType"} : Reads(type)
  \/ Reads("Eof") /\ open # <<>>

\* C16: content that is no element and no comment, read by any compile_*
\* function, adds one diagnostic, of level Error, and ends compile with an
\* error value, never with a panic.
C16_UnexpectedContentReported ==
  [][ReadsUnexpected =>
       /\ outcome' = "err"
       /\ Len(added') = Len(added) + 1
       /\ added'[Len(added')].min_level = "Error"]_vars

\* The words of the class attribute of an element and the text of its id
\* attribute, <<>> for an attribute it does not have.
ClassWordsOf(ev) ==
  IF AttrsOf(ev, "class") = {} THEN <<>>
  ELSE SelectSeq((CHOOSE at \in AttrsOf(ev, "class") : TRUE).value, LAMBDA piece : piece # " ")

IdOf(ev) ==
  IF AttrsOf(ev, "id") = {} THEN <<>>
  ELSE <<to_string((CHOOSE at \in AttrsOf(ev, "id") : TRUE).value)>>

\* The attributes of an element that are not class, id or style.
InvalidAttrs(ev) == {i \in 1..Len(ev.attrs) : ev.attrs[i].key \notin {"class", "id", "style"}}

HasUnknownType(ev) ==
  \E at \in AttrsOf(ev, "type") :
    to_lowercase(to_string(at.value)) \notin {"css", "sass", "scss"}

\* C18: when compile_head reads a Style element whose type is not css,
\* sass or scss, an invalid attribute diagnostic of level Info is added and
\* compile does not stop with a panic.
C18_UnknownTypeReported ==
  [][\A ev \in Events :
       ( /\ Running("compile_head")
         /\ input' = Append(input, ev)
         /\ IsElement(ev, "Style")
         /\ HasUnknownType(ev) ) =>
       /\ outcome' # "panic"
       /\ \E i \in (Len(added) + 1)..Len(added') :
            added'[i].min_level = "Info" /\ added'[i].kind = "InvalidAttribute"]_vars

(***************************************************************************)
(* Properties of the tree.                                                 *)
(***************************************************************************)
RECURSIVE Up(_, _, _)
\* The node k parent links above n, None once there is none.
Up(a, n, k) == IF k = 0 \/ n = None THEN n ELSE Up(a, a[n].parent, k - 1)

RECURSIVE Ascending(_)
\* The nodes of a set, oldest first: a node is the newer the later it was
\* appended.
Ascending(S) == IF S = {} THEN <<>> ELSE <<Min(S)>> \o Ascending(S \ {Min(S)})

\* C19: in the tree the appends have built there is one node without a
\* parent; the parent links lead from every node to it and pass no node
\* twice; children(n) is the nodes whose parent is n, in the order they
\* were appended; the first child has no previous and the last child no
\* next sibling; next_sibling and previous_sibling are inverse.
C19_TreeLinks ==
  LET a == elements
      N == 1..Len(a)
  IN /\ {n \in N : a[n].parent = None} = {root}
     /\ \A n \in N :
          \E k \in 0..(Len(a) - 1) :
            /\ Up(a, n, k) = root
            /\ \A i, j \in 0..k : i # j => Up(a, n, i) # Up(a, n, j)
     /\ \A n \in N :
          /\ Children(a, n) = Ascending({c \in N : a[c].parent = n})
          /\ a[n].first_child # None => a[a[n].first_child].previous_sibling = None
          /\ a[n].last_child # None => a[a[n].last_child].next_sibling = None
          /\ a[n].next_sibling # None => a[a[n].next_sibling].previous_sibling = n
          /\ a[n].previous_sibling # None => a[a[n].previous_sibling].next_sibling = n

\* Four nodes: the root has two children, and a grandchild that was
\* appended between them.
C19_Witness ==
  /\ Len(elements) = 4
  /\ Children(elements, root) = <<2, 4>>
  /\ Children(elements, 2) = <<3>>

\* The nodes of the subtree of s: s and the nodes below it.
Subtree(a, s) == {n \in 1..Len(a) : \E k \in 0..(Len(a) - 1) : Up(a, n, k) = s}

\* The places of an edge in a sequence of edges.
Places(t, edge) == {i \in 1..Len(t) : t[i] = edge}

RECURSIVE PreOrder(_, _)
RECURSIVE PreOrderOfAll(_, _)
\* A node, then the pre-orders of its children, oldest child first.
PreOrder(a, n) == <<n>> \o PreOrderOfAll(a, Ascending({c \in 1..Len(a) : a[c].parent = n}))

PreOrderOfAll(a, kids) ==
  IF kids = <<>> THEN <<>>
  ELSE PreOrder(a, Head(kids)) \o PreOrderOfAll(a, Tail(kids))

\* C20: from every node s of the tree, traverse(s) ends; it yields one
\* Start and one End edge for each node of the subtree of s and no edge of
\* any other node; the Start of a node comes before, and its End after,
\* the edges of the nodes below it; of two children of a node the older is
\* finished before the newer starts; descendants(s) is the pre-order of the
\* subtree of s.
C20_Traversal ==
  LET a == elements IN
  \A s \in 1..Len(a) :
    LET t == Traverse(a, s)
        sub == Subtree(a, s)
        Start(n) == CHOOSE i \in Places(t, <<"Start", n>>) : TRUE
        End(n) == CHOOSE i \in Places(t, <<"End", n>>) : TRUE
    IN /\ Len(t) = 2 * Cardinality(sub)
       /\ \A i \in 1..Len(t) : t[i][2] \in sub
       /\ \A n \in sub :
            /\ Cardinality(Places(t, <<"Start", n>>)) = 1
            /\ Cardinality(Places(t, <<"End", n>>)) = 1
            /\ Start(n) < End(n)
       /\ \A n \in sub : \A m \in Subtree(a, n) \ {n} :
            Start(n) < Start(m) /\ End(m) < End(n)
       /\ \A c, d \in sub \ {s} :
            (a[c].parent = a[d].parent /\ c < d) => End(c) < Start(d)
       /\ Descendants(a, s) = PreOrder(a, s)

\* The traversal from a node that has a child, a parent and a younger
\* sibling yields the four edges of its own subtree.
C20_Witness ==
  /\ Len(elements) = 4
  /\ elements[3].parent = 2 /\ elements[2].next_sibling = 4
  /\ Traverse(elements, 2) = << <<"Start", 2>>, <<"Start", 3>>, <<"End", 3>>, <<"End", 2>> >>

(***************************************************************************)
(* Properties of the compiled tree.                                        *)
(***************************************************************************)
RECURSIVE MarkupParents(_, _, _)
\* The parents the markup gives the Unstyled elements of a sequence of
\* events, in the order of the start tags: the element that encloses the
\* start tag, the k-th element being node k + 1.  enclosing is the open
\* elements, outermost first, below the root.
MarkupParents(events, enclosing, parents) ==
  IF events = <<>> THEN parents
  ELSE LET ev == Head(events) IN
       IF ev.type = "Start" /\ ev.name = "Unstyled"
       THEN MarkupParents(Tail(events), Append(enclosing, Len(parents) + 2),
                          Append(parents, enclosing[Len(enclosing)]))
       ELSE IF ev.type = "End" /\ ev.name = "Unstyled"
       THEN MarkupParents(Tail(events), SubSeq(enclosing, 1, Len(enclosing) - 1), parents)
       ELSE MarkupParents(Tail(events), enclosing, parents)

\* C21: as long as compile has not failed, the tree is the root and one
\* node for each Unstyled start tag read, the parent of a node is the node
\* of the element that encloses its start tag (the root for the elements
\* of Body), the children of a node are in the order of their start tags,
\* and the pre-order of the tree is the order of the start tags.
C21_TreeMirrorsMarkup ==
  outcome \in {"running", "ok"} =>
    LET parents == MarkupParents(input, <<root>>, <<>>)
        N == 1..Len(elements)
    IN /\ Len(elements) = Len(parents) + 1
       /\ elements[root].parent = None
       /\ \A n \in N \ {root} : elements[n].parent = parents[n - 1]
       /\ \A n \in N : Children(elements, n) = Ascending({c \in N : elements[c].parent = n})
       /\ Descendants(elements, root) = [i \in N |-> i]

\* compile has returned the document of a Body that holds an Unstyled
\* element inside an Unstyled element.
C21_Witness ==
  /\ outcome = "ok"
  /\ Len(elements) = 3
  /\ elements[2].parent = root /\ elements[3].parent = 2
  /\ Cardinality(ElementsRead("Unstyled")) = 2

\* C22: when compile_ui_element reads a self-closing Unstyled element
\* (one without a style attribute), the element becomes a new node without
\* children, the last child of the open element, with the classes and the
\* id of its attributes; no element is opened and compile goes on.
C22_SelfClosingUnstyled ==
  [][\A ev \in Events :
       ( /\ Running("compile_ui_element")
         /\ input' = Append(input, ev)
         /\ ev.type = "Empty" /\ ev.name = "Unstyled"
         /\ AttrsOf(ev, "style") = {} ) =>
       LET node == Len(elements) + 1 IN
       /\ outcome' = "running"
       /\ stack' = stack
       /\ Len(elements') = node
       /\ elements'[node].parent = Top.parent
       /\ elements'[node].first_child = None
       /\ elements'[node].classes = ClassWordsOf(ev)
       /\ elements'[node].id = IdOf(ev)]_vars

\* The handles of the tree of a from r mirror the tree: the children of the
\* handle of a node are the handles of the children of the node, in their
\* order, each owned by the handle of the parent; the handle of the root
\* has no owner; a handle is a child at one place at most.
HandlesMirror(a, r, yg) ==
  LET N == Range(Descendants(a, r))
      Inserted(h) == {<<p, i>> \in (1..Len(yg)) \X (1..Len(yg)) :
                        i <= Len(yg[p].children) /\ yg[p].children[i] = h}
  IN /\ yg[a[r].yg].owner = None
     /\ Inserted(a[r].yg) = {}
     /\ \A n \in N :
          LET kids == Children(a, n) IN
          /\ yg[a[n].yg].children = [i \in 1..Len(kids) |-> a[kids[i]].yg]
          /\ \A i \in 1..Len(kids) :
               /\ yg[a[kids[i]].yg].owner = a[n].yg
               /\ Inserted(a[kids[i]].yg) = {<<a[n].yg, i>>}

\* C23: in the document compile has returned, and in the document load
\* has returned, the handle of every node but the root is a child of the
\* handle of its parent, at the place the node has among its siblings, the
\* handle of the root has no parent, and no handle was inserted twice.
C23_HandleTreeMirrors ==
  /\ built => HandlesMirror(elements, root, yoga)
  /\ (obs.op = "load" /\ ~obs.doc.panicked) =>
       HandlesMirror(obs.doc.elements, obs.doc.root, obs.doc.yoga)

\* A compiled document whose root has two children, and the document
\* loaded from it.
C23_Witness ==
  /\ built
  /\ Len(Children(elements, root)) = 2
  /\ obs.op = "load"
  /\ Len(Children(obs.doc.elements, obs.doc.root)) = 2

\* The positions of the log of a compute_style call that carry the tag.
LogPlaces(log, tag) == {i \in 1..Len(log) : log[i][1] = tag}

\* C24: in a compute_style call the layout computation is invoked exactly
\* once, on the handle of the root, after the computed style of every node
\* has been pushed to its handle and before any RenderStyle is read back,
\* and the read-back covers exactly the nodes that were styled in the call.
C24_StepOrder ==
  obs.op = "compute_style_returned" =>
    LET log == obs.log
        layouts == LogPlaces(log, "calculate_layout")
        pushes == LogPlaces(log, "prepare_yoga")
        reads == LogPlaces(log, "update_render")
    IN /\ Cardinality(layouts) = 1
       /\ \A k \in layouts :
            /\ log[k][2] = elements[root].yg
            /\ pushes = 1..(k - 1)
            /\ reads = (k + 1)..Len(log)
       /\ {log[i][2] : i \in pushes} = Range(obs.vec)
       /\ {log[i][2] : i \in reads} = {log[i][2] : i \in pushes}
       /\ Cardinality(reads) = Cardinality(Range(obs.vec))
       /\ Range(obs.vec) = 1..Len(elements)

\* A call over a root with a child has returned.
C24_Witness ==
  /\ obs.op = "compute_style_returned"
  /\ Len(obs.vec) = 2
  /\ Len(obs.log) = 5


\* A margin that a rule has moved away from the default has been set on the
\* handle; a margin left at the default of 0px needs no call on the handle.
MarginPushed(onHandle, computed) ==
  computed # Px(0) => onHandle = computed

\* C25: after compute_style the layout handle of each node has been set
\* with the node's computed width, height and four margins, so a margin
\* declared by a matching rule reaches the layout engine.
C25_AllLayoutPropertiesPushed ==
  obs.op = "compute_style_returned" =>
    \A n \in Range(obs.vec) :
      LET handle == yoga[elements[n].yg]
          computed == elements[n].computed
      IN /\ handle.width = computed.width
         /\ handle.height = computed.height
         /\ MarginPushed(handle.margin.top, computed.margin_top)
         /\ MarginPushed(handle.margin.bottom, computed.margin_bottom)
         /\ MarginPushed(handle.margin.left, computed.margin_left)
         /\ MarginPushed(handle.margin.right, computed.margin_right)


\* C26: every compute_style pass produces a fresh ComputedStyle per node:
\* after a pass the ComputedStyle of every node of the tree is the result of
\* applying the rules of the stylesheet, in their order, to the default
\* ComputedStyle, whatever the passes before it left.
C26_FreshComputedStyle ==
  obs.op = "compute_style" =>
    \A n \in TreeNodes :
      elements[n].computed = StyleSheetApply(stylesheet, elements, n, DefaultComputedStyle)


\* The rule a piece of css text states.
RuleOfCss(css) ==
  [selectors |-> SelectorListParse(css.prelude).value, properties |-> css.properties]

RECURSIVE SourceRules(_)
\* The rules of the Style elements among the events, those of one element
\* in the order of its text and the elements in the order they were read.
SourceRules(events) ==
  IF events = <<>> THEN <<>>
  ELSE (IF IsElement(Head(events), "Style")
        THEN [i \in 1..Len(Head(events).content.css) |-> RuleOfCss(Head(events).content.css[i])]
        ELSE <<>>) \o SourceRules(Tail(events))

\* C27: after compile the stylesheet holds the rules of every Style element
\* of Head, those of one element in their textual order and the elements in
\* document order, and it stays so through every compute_style and
\* query_selector that follows.
C27_StylesheetInSourceOrder ==
  outcome = "ok" => stylesheet = SourceRules(input)

\* Two Style elements with different rules were compiled, a compute_style
\* pass has styled a node and a query_selector has run after it.
C27_Witness ==
  /\ outcome = "ok"
  /\ Cardinality(ElementsRead("Style")) = 2
  /\ Len(stylesheet) = 2
  /\ stylesheet[1] # stylesheet[2]
  /\ obs.op = "query_selector"
  /\ \E n \in TreeNodes : elements[n].computed # DefaultComputedStyle


\* The places of the rules of a css text that do not parse.
FailingRules(css) == {i \in 1..Len(css) : ~SelectorListParse(css[i].prelude).ok}

\* The rules of a css text before the first one that does not parse.
RulesBeforeFailure(css) ==
  LET k == IF FailingRules(css) = {} THEN Len(css) + 1 ELSE Min(FailingRules(css))
  IN [i \in 1..(k - 1) |-> RuleOfCss(css[i])]

\* compile has ended with the css parse error of the Style element read last.
CssParseFailed ==
  /\ outcome = "err"
  /\ added # <<>>
  /\ added[Len(added)].kind = "CssParseError"

\* C28: StyleSheet::parse appends incrementally and does not roll back:
\* when the k-th rule of an input fails to parse, the stylesheet holds the
\* rules it had before the call, unchanged and in front, followed by exactly
\* the k-1 rules before the failing one, and by none after it.
C28_ParseAppendsUpToFailure ==
  CssParseFailed =>
    LET last == input[Len(input)]
        before == SourceRules(SubSeq(input, 1, Len(input) - 1))
    IN /\ IsElement(last, "Style")
       /\ FailingRules(last.content.css) # {}
       /\ stylesheet = before \o RulesBeforeFailure(last.content.css)

\* A stylesheet of one rule was given a text of three rules whose second
\* one fails: it holds two rules.
C28_Witness ==
  /\ CssParseFailed
  /\ Len(input[Len(input)].content.css) = 3
  /\ Min(FailingRules(input[Len(input)].content.css)) = 2
  /\ Len(SourceRules(SubSeq(input, 1, Len(input) - 1))) = 1
  /\ Len(stylesheet) = 2


\* The node whose lock thread t needs for its next step, None if it needs
\* none.
Needs(t) ==
  CASE calls[t].op = "traverse" ->
         IF calls[t].edge = "End" /\ calls[t].node = root /\ ~calls[t].held THEN None
         ELSE calls[t].node
    [] calls[t].op = "append" -> calls[t].waits
    [] OTHER -> None

\* The threads that keep thread t from the lock it needs: for a read the
\* writer and the threads waiting to write, for a write the writer and the
\* readers.
Blockers(t) ==
  IF Needs(t) = None THEN {}
  ELSE LET l == locks[Needs(t)]
           writer == IF l.writer = None THEN {} ELSE {l.writer}
       IN IF calls[t].op = "traverse" THEN writer \cup l.waiting
          ELSE writer \cup l.readers

\* A set of threads each of which waits for threads of the set only.
Deadlocked(S) == S # {} /\ \A t \in S : Blockers(t) # {} /\ Blockers(t) \subseteq S

\* C29: no deadlock between traversal and append on the locks of the nodes:
\* in every interleaving of threads that iterate over the tree and threads
\* that append to its nodes, no set of threads waits for each other, so
\* each thread can finish its operation.
C29_NoDeadlock == \A S \in SUBSET Threads : ~Deadlocked(S)


\* C30: render draws its own layout: the RenderStyle values render_inner
\* builds the display list from are the ones a compute_style pass with the
\* layout size of that renderer gives the nodes, also when other threads
\* call compute_style with a different viewport on the same document.
C30_RenderDrawsOwnLayout ==
  obs.op = "render_inner" =>
    LET vp == obs.viewport
        own == compute_style(elements, root, stylesheet, yoga, vp[1], vp[2], vp[3]).elements
        vec == Descendants(elements, root)
    IN obs.list = [i \in 1..Len(vec) |-> own[vec[i]].render]

====
